---- MODULE Spec2Model ----
(***************************************************************************)
(* The multilingual-language toolchain: lexer, parser, bytecode generator  *)
(* and virtual machine, as run by compileAndRun.                           *)
(*                                                                         *)
(* Strings are TLA+ strings; a character is a string of length 1.          *)
(***************************************************************************)
EXTENDS Integers, Sequences, FiniteSets, TLC

(***************************************************************************)
(* Bounds of the model.                                                    *)
(***************************************************************************)
\* The VM's loop has no instruction budget; the model stops following a run
\* after this many instructions.
MaxSteps == 80
\* Fraction digits produced for the textual form of a non-integer number.
MaxFracDigits == 8

(***************************************************************************)
(* Characters.                                                             *)
(***************************************************************************)
CharAt(s, i) == SubSeq(s, i, i)

Drop(s, k) == SubSeq(s, k + 1, Len(s))

Take(s, k) == SubSeq(s, 1, k)

Digits == "0123456789"

IsDigit(c) == \E i \in 1..10 : CharAt(Digits, i) = c

DigitVal(c) == (CHOOSE i \in 1..10 : CharAt(Digits, i) = c) - 1

LowerCase == "abcdefghijklmnopqrstuvwxyz"

UpperCase == "ABCDEFGHIJKLMNOPQRSTUVWXYZ"

IsLetter(c) ==
    \E i \in 1..26 : CharAt(LowerCase, i) = c \/ CharAt(UpperCase, i) = c

\* The printable ASCII characters in code order: codes 32..95 and 97..126
\* (a TLA+ string cannot hold the grave accent, code 96).
PrintableLow ==
    " !\"#$%&'()*+,-./0123456789:;<=>?@ABCDEFGHIJKLMNOPQRSTUVWXYZ[\\]^_"

PrintableHigh == "abcdefghijklmnopqrstuvwxyz{|}~"

\* The UTF-16 code unit of a character (ASCII only).
CharCode(c) ==
    IF c = "\t" THEN 9
    ELSE IF c = "\n" THEN 10
    ELSE IF c = "\r" THEN 13
    ELSE IF \E i \in 1..Len(PrintableLow) : CharAt(PrintableLow, i) = c
         THEN 31 + (CHOOSE i \in 1..Len(PrintableLow) : CharAt(PrintableLow, i) = c)
    ELSE 96 + (CHOOSE i \in 1..Len(PrintableHigh) : CharAt(PrintableHigh, i) = c)

IsWhiteSpaceChar(c) == c \in {" ", "\t", "\n", "\r"}

(***************************************************************************)
(* Runtime values: the JavaScript values the VM's stack and variables      *)
(* hold.  A number is the quotient n/d: d > 0 for a finite number in       *)
(* lowest terms, 1/0 and -1/0 for +-Infinity, 0/0 for NaN.  The model does *)
(* not tell -0 from 0 (the code has no operation that does: DIVIDE throws  *)
(* on either) and does not round to binary64.                              *)
(***************************************************************************)
Abs(x) == IF x < 0 THEN -x ELSE x

Sgn(x) == IF x < 0 THEN -1 ELSE IF x = 0 THEN 0 ELSE 1

RECURSIVE Gcd(_, _)
Gcd(a, b) == IF b = 0 THEN a ELSE Gcd(b, a % b)

Val(t, n, d, s) == [t |-> t, n |-> n, d |-> d, s |-> s]

Rat(n, d) ==
    IF d = 0 THEN Val("number", Sgn(n), 0, "")
    ELSE LET g == Gcd(Abs(n), Abs(d))
         IN  Val("number", (Sgn(d) * n) \div g, Abs(d) \div g, "")

Num(n) == Val("number", n, 1, "")

NaN == Val("number", 0, 0, "")

Infinity == Val("number", 1, 0, "")

Str(s) == Val("string", 0, 1, s)

Bool(b) == Val("boolean", IF b THEN 1 ELSE 0, 1, "")

Null == Val("null", 0, 1, "")

Undefined == Val("undefined", 0, 1, "")

IsNaN(x) == x.t = "number" /\ x.d = 0 /\ x.n = 0

IsInf(x) == x.t = "number" /\ x.d = 0 /\ x.n # 0

IsZero(x) == x.t = "number" /\ x.d # 0 /\ x.n = 0

\* ---- numeric operators on numbers (IEEE special cases, exact otherwise)
NumAdd(a, b) ==
    IF IsNaN(a) \/ IsNaN(b) THEN NaN
    ELSE IF IsInf(a) THEN (IF IsInf(b) /\ b.n # a.n THEN NaN ELSE a)
    ELSE IF IsInf(b) THEN b
    ELSE Rat(a.n * b.d + b.n * a.d, a.d * b.d)

NumNeg(a) == Val("number", -a.n, a.d, "")

NumSub(a, b) == NumAdd(a, NumNeg(b))

NumMul(a, b) ==
    IF IsNaN(a) \/ IsNaN(b) THEN NaN
    ELSE IF IsInf(a) \/ IsInf(b)
         THEN (IF IsZero(a) \/ IsZero(b) THEN NaN ELSE Rat(Sgn(a.n) * Sgn(b.n), 0))
    ELSE Rat(a.n * b.n, a.d * b.d)

NumDiv(a, b) ==
    IF IsNaN(a) \/ IsNaN(b) THEN NaN
    ELSE IF IsInf(a)
         THEN (IF IsInf(b) THEN NaN
               ELSE Rat(a.n * (IF b.n < 0 THEN -1 ELSE 1), 0))
    ELSE IF IsInf(b) THEN Num(0)
    ELSE Rat(a.n * b.d, a.d * b.n)

\* JavaScript's %: the remainder has the sign of the dividend.
NumMod(a, b) ==
    IF IsNaN(a) \/ IsNaN(b) \/ IsInf(a) \/ IsZero(b) THEN NaN
    ELSE IF IsInf(b) THEN a
    ELSE LET x == a.n * b.d
             y == a.d * b.n
             q == Sgn(x) * Sgn(y) * (Abs(x) \div Abs(y))
         IN  NumSub(a, NumMul(b, Num(q)))

\* a < b on numbers: "true", "false" or "undefined" (a NaN operand)
NumLess(a, b) ==
    IF IsNaN(a) \/ IsNaN(b) THEN "undefined"
    ELSE IF a = b THEN "false"
    ELSE IF IsInf(a) THEN (IF a.n < 0 THEN "true" ELSE "false")
    ELSE IF IsInf(b) THEN (IF b.n > 0 THEN "true" ELSE "false")
    ELSE IF a.n * b.d < b.n * a.d THEN "true" ELSE "false"

\* ---- conversions
RECURSIVE NatToString(_)
NatToString(k) ==
    IF k < 10 THEN CharAt(Digits, k + 1)
    ELSE NatToString(k \div 10) \o CharAt(Digits, (k % 10) + 1)

RECURSIVE FracToString(_, _, _)
FracToString(r, d, k) ==
    IF r = 0 \/ k = 0 THEN ""
    ELSE CharAt(Digits, ((r * 10) \div d) + 1)
             \o FracToString((r * 10) % d, d, k - 1)

\* Number::toString for the numbers of the model (no exponent form).
NumberToString(x) ==
    IF IsNaN(x) THEN "NaN"
    ELSE IF IsInf(x) THEN (IF x.n < 0 THEN "-Infinity" ELSE "Infinity")
    ELSE LET m == Abs(x.n)
             sign == IF x.n < 0 THEN "-" ELSE ""
         IN  IF m % x.d = 0 THEN sign \o NatToString(m \div x.d)
             ELSE sign \o NatToString(m \div x.d) \o "."
                       \o FracToString(m % x.d, x.d, MaxFracDigits)

\* String(v)
ToStr(v) ==
    CASE v.t = "string" -> v.s
      [] v.t = "number" -> NumberToString(v)
      [] v.t = "boolean" -> (IF v.n = 1 THEN "true" ELSE "false")
      [] v.t = "null" -> "null"
      [] OTHER -> "undefined"

RECURSIVE TrimLeft(_)
TrimLeft(s) ==
    IF s # "" /\ IsWhiteSpaceChar(Head(s)) THEN TrimLeft(Tail(s)) ELSE s

RECURSIVE TrimRight(_)
TrimRight(s) ==
    IF s # "" /\ IsWhiteSpaceChar(CharAt(s, Len(s)))
    THEN TrimRight(Take(s, Len(s) - 1)) ELSE s

\* The length of the longest prefix of s made of digits.
RECURSIVE DigitRun(_)
DigitRun(s) ==
    IF s # "" /\ IsDigit(Head(s)) THEN 1 + DigitRun(Tail(s)) ELSE 0

RECURSIVE DigitsValue(_, _)
DigitsValue(s, acc) ==
    IF s = "" THEN acc ELSE DigitsValue(Tail(s), acc * 10 + DigitVal(Head(s)))

RECURSIVE Pow10(_)
Pow10(k) == IF k = 0 THEN 1 ELSE 10 * Pow10(k - 1)

\* The value of the unsigned decimal ip [. fp] (both runs of digits).
DecimalValue(ip, fp) ==
    Rat(DigitsValue(ip, 0) * Pow10(Len(fp)) + DigitsValue(fp, 0), Pow10(Len(fp)))

\* An unsigned StrDecimalLiteral without exponent: digits [. [digits]] or
\* . digits; anything else is NaN.
UnsignedToNumber(s) ==
    LET i == DigitRun(s)
        rest == Drop(s, i)
    IN  IF s = "Infinity" THEN Infinity
        ELSE IF rest = "" THEN (IF i > 0 THEN DecimalValue(s, "") ELSE NaN)
        ELSE IF Head(rest) # "." THEN NaN
        ELSE LET f == Tail(rest)
                 j == DigitRun(f)
             IN  IF j # Len(f) \/ i + j = 0 THEN NaN
                 ELSE DecimalValue(Take(s, i), f)

\* StringToNumber.  Exponent, hexadecimal, octal and binary literals are not
\* modelled: no string of the model contains one.
StringToNumber(str) ==
    LET s == TrimRight(TrimLeft(str))
    IN  IF s = "" THEN Num(0)
        ELSE IF Head(s) = "-" THEN NumNeg(UnsignedToNumber(Tail(s)))
        ELSE IF Head(s) = "+" THEN UnsignedToNumber(Tail(s))
        ELSE UnsignedToNumber(s)

\* ToNumber(v)
ToNum(v) ==
    CASE v.t = "number" -> v
      [] v.t = "string" -> StringToNumber(v.s)
      [] v.t = "boolean" -> Num(v.n)
      [] v.t = "null" -> Num(0)
      [] OTHER -> NaN

\* ToBoolean(v)
Truthy(v) ==
    CASE v.t = "number" -> ~(IsNaN(v) \/ IsZero(v))
      [] v.t = "string" -> v.s # ""
      [] v.t = "boolean" -> v.n = 1
      [] OTHER -> FALSE

\* parseFloat of a NUMBER lexeme (a run of [0-9.] that starts with a digit):
\* the longest prefix digits [. digits].
ParseFloat(s) ==
    LET i == DigitRun(s)
        rest == Drop(s, i)
    IN  IF rest = "" \/ Head(rest) # "." THEN DecimalValue(Take(s, i), "")
        ELSE LET f == Tail(rest)
             IN  DecimalValue(Take(s, i), Take(f, DigitRun(f)))

\* ---- the JavaScript operators the VM applies to two popped values
RECURSIVE StringLess(_, _)
StringLess(a, b) ==
    IF b = "" THEN FALSE
    ELSE IF a = "" THEN TRUE
    ELSE IF Head(a) = Head(b) THEN StringLess(Tail(a), Tail(b))
    ELSE CharCode(Head(a)) < CharCode(Head(b))

\* a + b
JsAdd(a, b) ==
    IF a.t = "string" \/ b.t = "string" THEN Str(ToStr(a) \o ToStr(b))
    ELSE NumAdd(ToNum(a), ToNum(b))

\* a === b
StrictEquals(a, b) == a = b /\ ~IsNaN(a)

\* the abstract relational comparison a < b
Less(a, b) ==
    IF a.t = "string" /\ b.t = "string"
    THEN (IF StringLess(a.s, b.s) THEN "true" ELSE "false")
    ELSE NumLess(ToNum(a), ToNum(b))

JsLessThan(a, b) == Bool(Less(a, b) = "true")

JsGreaterThan(a, b) == Bool(Less(b, a) = "true")

JsLessEqual(a, b) == Bool(Less(b, a) = "false")

JsGreaterEqual(a, b) == Bool(Less(a, b) = "false")

(***************************************************************************)
(* The language table (language/definitions).  keywords lists the surface  *)
(* spellings in the order of KeywordNames, the insertion order of the      *)
(* keywords object.                                                        *)
(***************************************************************************)
KeywordNames ==
    << "if", "else", "while", "for", "function", "return", "var", "true",
       "false", "null", "print", "input" >>

\* syntaxError stands for messages.syntaxError, whose text (not ASCII outside
\* English) is named, not spelled.
Language(key, code, keywords, syntaxError) ==
    [key |-> key, code |-> code, keywords |-> keywords,
     syntaxError |-> syntaxError]

English ==
    Language("english", "en",
        << "if", "else", "while", "for", "function", "return", "var", "true",
           "false", "null", "print", "input" >>,
        "Syntax Error")

\* A faulty entry that spells input as it spells for: C26 fails under it.
TamilAmbiguous ==
    Language("tamil", "ta",
        << "yenil", "illai", "varai", "ulla", "seyal", "thirumbu", "maari",
           "unmai", "poi", "ondrum_illai", "achchidu", "ulla" >>,
        "syntaxError[ta]")

Tamil ==
    Language("tamil", "ta",
        << "yenil", "illai", "varai", "ulla", "seyal", "thirumbu", "maari",
           "unmai", "poi", "ondrum_illai", "achchidu", "ulle" >>,
        "syntaxError[ta]")

Malayalam ==
    Language("malayalam", "ml",
        << "engil", "allengil", "vare", "ulla", "pani", "thirike", "maatti",
           "sathyam", "asathyam", "onnum_illa", "print", "input" >>,
        "syntaxError[ml]")

Telugu ==
    Language("telugu", "te",
        << "ayite", "lekapothe", "varaku", "kosam", "pani", "thirigi", "maaru",
           "nijam", "abaddham", "emiledu", "print", "input" >>,
        "syntaxError[te]")

Hindi ==
    Language("hindi", "hi",
        << "agar", "nahi_to", "jab_tak", "ke_liye", "kaam", "wapas", "badal",
           "sach", "jhooth", "kuch_nahi", "print", "input" >>,
        "syntaxError[hi]")

Sanskrit ==
    Language("sanskrit", "sa",
        << "yadi", "anya", "yavat", "artham", "karma", "nivartate",
           "parivartan", "satyam", "asatyam", "shunya", "print", "input" >>,
        "syntaxError[sa]")

\* Object.values(LANGUAGES), in insertion order
LANGUAGES == << English, Tamil, Malayalam, Telugu, Hindi, Sanskrit >>

\* undefined, where a LanguageDefinition is expected
NoLanguage == Language("", "", << >>, "")

\* LANGUAGES[name]: the entry under the property name, undefined without one
Entry(name) ==
    IF \E i \in DOMAIN LANGUAGES : LANGUAGES[i].key = name
    THEN LANGUAGES[CHOOSE i \in DOMAIN LANGUAGES : LANGUAGES[i].key = name]
    ELSE NoLanguage

getLanguageByCode(code) == Entry(code)

getAllLanguages == LANGUAGES

\* A faulty loop that takes the keyword for its own English name: C27
\* fails under it.
EnglishKeywordUnsearched(fromLanguage, keyword) == keyword

\* the loop of getKeywordTranslation: the name of the first entry of the
\* keywords whose spelling is the keyword, the keyword itself without one
EnglishKeyword(fromLanguage, keyword) ==
    LET found == { i \in DOMAIN fromLanguage.keywords :
                     fromLanguage.keywords[i] = keyword }
    IN  IF found = {} THEN keyword
        ELSE KeywordNames[CHOOSE i \in found : \A j \in found : i <= j]

\* toLanguage.keywords[englishKeyword] || keyword
SpellingOr(toLanguage, englishKeyword, keyword) ==
    LET named == { i \in DOMAIN toLanguage.keywords :
                     KeywordNames[i] = englishKeyword }
    IN  IF named = {} THEN keyword
        ELSE LET spelling == toLanguage.keywords[CHOOSE i \in named : TRUE]
             IN  IF spelling = "" THEN keyword ELSE spelling

getKeywordTranslation(keyword, fromLang, toLang) ==
    LET fromLanguage == Entry(fromLang)
        toLanguage == Entry(toLang)
    IN  IF fromLanguage = NoLanguage \/ toLanguage = NoLanguage THEN keyword
        ELSE SpellingOr(toLanguage, EnglishKeyword(fromLanguage, keyword), keyword)

(***************************************************************************)
(* The lexer (compiler/lexer).  A lexer state is the position (0-based),   *)
(* line and column of the Lexer object; the source is passed alongside.    *)
(***************************************************************************)
Token(type, value, line, column) ==
    [type |-> type, value |-> value, line |-> line, column |-> column]

LexState(position, line, column) ==
    [position |-> position, line |-> line, column |-> column]

\* Lexer.peek(offset)
LexPeek(source, lx, offset) ==
    IF lx.position + offset < Len(source)
    THEN CharAt(source, lx.position + offset + 1) ELSE ""

\* Lexer.advance(): the lexer state after it (the character returned is
\* LexPeek(source, lx, 0))
LexAdvance(source, lx) ==
    IF lx.position < Len(source)
    THEN IF LexPeek(source, lx, 0) = "\n"
         THEN LexState(lx.position + 1, lx.line + 1, 1)
         ELSE LexState(lx.position + 1, lx.line, lx.column + 1)
    ELSE lx

\* Lexer.skipWhitespace()
RECURSIVE SkipWhitespace(_, _)
SkipWhitespace(source, lx) ==
    IF lx.position < Len(source) /\ LexPeek(source, lx, 0) \in {" ", "\t", "\r"}
    THEN SkipWhitespace(source, LexAdvance(source, lx))
    ELSE lx

IsNumberChar(c) == IsDigit(c) \/ c = "."

IsIdentifierStart(c) == IsLetter(c) \/ c = "_"

IsIdentifierChar(c) == IsLetter(c) \/ IsDigit(c) \/ c = "_"

\* The loops of readNumber and readIdentifier: the lexer state after a
\* maximal run of characters matching /[0-9.]/ (class "number") or
\* /[a-zA-Z0-9_]/ (class "identifier").
RECURSIVE SkipRun(_, _, _)
SkipRun(source, lx, class) ==
    IF /\ lx.position < Len(source)
       /\ IF class = "number" THEN IsNumberChar(LexPeek(source, lx, 0))
          ELSE IsIdentifierChar(LexPeek(source, lx, 0))
    THEN SkipRun(source, LexAdvance(source, lx), class)
    ELSE lx

\* What a reader returns: the token and the lexer state it leaves.
Lexed(token, lx) == [token |-> token, lx |-> lx]

\* Lexer.readNumber()
ReadNumber(source, lx) ==
    LET end == SkipRun(source, lx, "number")
    IN  Lexed(Token("NUMBER", SubSeq(source, lx.position + 1, end.position),
                    end.line, lx.column), end)

\* The escape switch of readString
Unescape(escaped) ==
    CASE escaped = "n" -> "\n"
      [] escaped = "t" -> "\t"
      [] escaped = "r" -> "\r"
      [] OTHER -> escaped

\* The loop of readString: [value, lx] at its end
RECURSIVE ReadStringLoop(_, _, _, _)
ReadStringLoop(source, lx, quote, value) ==
    IF lx.position >= Len(source) THEN [value |-> value, lx |-> lx]
    ELSE LET char == LexPeek(source, lx, 0)
         IN  IF char = quote
             THEN [value |-> value, lx |-> LexAdvance(source, lx)]
             ELSE IF char = "\\"
             THEN LET l1 == LexAdvance(source, lx)
                      escaped == LexPeek(source, l1, 0)
                  IN  ReadStringLoop(source, LexAdvance(source, l1), quote,
                                     value \o Unescape(escaped))
             ELSE ReadStringLoop(source, LexAdvance(source, lx), quote,
                                 value \o char)

\* Lexer.readString()
ReadString(source, lx) ==
    LET quote == LexPeek(source, lx, 0)
        r == ReadStringLoop(source, LexAdvance(source, lx), quote, "")
    IN  Lexed(Token("STRING", r.value, r.lx.line, lx.column), r.lx)

\* The switch of getKeywordTokenType: the token type of an English keyword
\* name, "" when the switch has no case for it (print, input).
KeywordCase(englishKeyword) ==
    CASE englishKeyword = "if" -> "IF"
      [] englishKeyword = "else" -> "ELSE"
      [] englishKeyword = "while" -> "WHILE"
      [] englishKeyword = "for" -> "FOR"
      [] englishKeyword = "function" -> "FUNCTION"
      [] englishKeyword = "return" -> "RETURN"
      [] englishKeyword = "var" -> "VAR"
      [] englishKeyword = "true" -> "TRUE"
      [] englishKeyword = "false" -> "FALSE"
      [] englishKeyword = "null" -> "NULL"
      [] OTHER -> ""

\* Lexer.getKeywordTokenType(value): the loop over the entries from entry i
RECURSIVE KeywordLoop(_, _, _)
KeywordLoop(language, value, i) ==
    IF i > Len(language.keywords) THEN "IDENTIFIER"
    ELSE IF value = language.keywords[i] /\ KeywordCase(KeywordNames[i]) # ""
    THEN KeywordCase(KeywordNames[i])
    ELSE KeywordLoop(language, value, i + 1)

\* A faulty getKeywordTokenType that looks the lexeme up in the English
\* table whatever the language of the lexer: C13 fails under it.
GetEnglishKeywordTokenType(language, value) == KeywordLoop(English, value, 1)

GetKeywordTokenType(language, value) == KeywordLoop(language, value, 1)

\* Lexer.readIdentifier()
ReadIdentifier(source, lx, language) ==
    LET end == SkipRun(source, lx, "identifier")
        value == SubSeq(source, lx.position + 1, end.position)
    IN  Lexed(Token(GetKeywordTokenType(language, value), value, end.line,
                    lx.column), end)

\* The two-character switch of tokenize ("" when no case matches)
TwoCharType(twoChar) ==
    CASE twoChar = "==" -> "EQUAL"
      [] twoChar = "!=" -> "NOT_EQUAL"
      [] twoChar = "<=" -> "LESS_EQUAL"
      [] twoChar = ">=" -> "GREATER_EQUAL"
      [] twoChar = "&&" -> "AND"
      [] twoChar = "||" -> "OR"
      [] OTHER -> ""

\* The single-character switch of tokenize ("" when no case matches)
SingleCharType(char) ==
    CASE char = "=" -> "ASSIGN"
      [] char = "<" -> "LESS_THAN"
      [] char = ">" -> "GREATER_THAN"
      [] char = "+" -> "PLUS"
      [] char = "-" -> "MINUS"
      [] char = "*" -> "MULTIPLY"
      [] char = "/" -> "DIVIDE"
      [] char = "%" -> "MODULO"
      [] char = "!" -> "NOT"
      [] char = "(" -> "LPAREN"
      [] char = ")" -> "RPAREN"
      [] char = "{" -> "LBRACE"
      [] char = "}" -> "RBRACE"
      [] char = ";" -> "SEMICOLON"
      [] char = "," -> "COMMA"
      [] char = "\n" -> "NEWLINE"
      [] OTHER -> ""

\* One iteration of tokenize's loop after skipWhitespace, at a position
\* inside the source: the token pushed and the lexer state it leaves.
ScanToken(source, lx, language) ==
    LET char == LexPeek(source, lx, 0)
        twoChar == char \o LexPeek(source, lx, 1)
    IN  IF IsDigit(char) THEN ReadNumber(source, lx)
        ELSE IF char = "\"" \/ char = "'" THEN ReadString(source, lx)
        ELSE IF IsIdentifierStart(char) THEN ReadIdentifier(source, lx, language)
        ELSE IF lx.position + 1 < Len(source) /\ TwoCharType(twoChar) # ""
        THEN Lexed(Token(TwoCharType(twoChar), twoChar, lx.line, lx.column),
                   LexAdvance(source, LexAdvance(source, lx)))
        ELSE IF SingleCharType(char) # ""
        THEN Lexed(Token(SingleCharType(char), char, lx.line, lx.column),
                   LexAdvance(source, lx))
        ELSE Lexed(Token("UNKNOWN", char, lx.line, lx.column),
                   LexAdvance(source, lx))

\* The loop of tokenize, ending with the EOF token
RECURSIVE TokenizeLoop(_, _, _, _)
TokenizeLoop(source, lx, language, tokens) ==
    LET l1 == SkipWhitespace(source, lx)
    IN  IF lx.position >= Len(source) \/ l1.position >= Len(source)
        THEN Append(tokens, Token("EOF", "", l1.line, l1.column))
        ELSE LET r == ScanToken(source, l1, language)
             IN  TokenizeLoop(source, r.lx, language, Append(tokens, r.token))

\* A faulty tokenize that pushes the EOF token a second time: C14 fails
\* under it.
TokenizeEndedTwice(source, language) ==
    Append(TokenizeLoop(source, LexState(0, 1, 1), language, << >>),
           Token("EOF", "", 1, 1))

\* new Lexer(source, language).tokenize()
Tokenize(source, language) ==
    TokenizeLoop(source, LexState(0, 1, 1), language, << >>)

(***************************************************************************)
(* The syntax tree (compiler/ast, as the parser builds it and the          *)
(* generator reads it).  Every node has the same five fields; a field a    *)
(* node class does not have is empty.  children holds the node's child     *)
(* nodes in constructor order, NoNode standing for an absent (undefined or *)
(* null) child.                                                            *)
(***************************************************************************)
Node(kind, name, value, parameters, children) ==
    [kind |-> kind, name |-> name, value |-> value,
     parameters |-> parameters, children |-> children]

NoNode == Node("none", "", Undefined, << >>, << >>)

Program(statements) == Node("Program", "", Undefined, << >>, statements)

VarDeclaration(identifier, initializer) ==
    Node("VarDeclaration", identifier, Undefined, << >>, << initializer >>)

FunctionDeclaration(name, parameters, body) ==
    Node("FunctionDeclaration", name, Undefined, parameters, body)

IfStatement(condition, thenStatement, elseStatement) ==
    Node("IfStatement", "", Undefined, << >>,
         << condition, thenStatement, elseStatement >>)

WhileStatement(condition, body) ==
    Node("WhileStatement", "", Undefined, << >>, << condition, body >>)

ForStatement(initializer, condition, increment, body) ==
    Node("ForStatement", "", Undefined, << >>,
         << initializer, condition, increment, body >>)

ReturnStatement(value) ==
    Node("ReturnStatement", "", Undefined, << >>, << value >>)

BlockStatement(statements) ==
    Node("BlockStatement", "", Undefined, << >>, statements)

ExpressionStatement(expression) ==
    Node("ExpressionStatement", "", Undefined, << >>, << expression >>)

BinaryExpression(left, operator, right) ==
    Node("BinaryExpression", operator, Undefined, << >>, << left, right >>)

UnaryExpression(operator, operand) ==
    Node("UnaryExpression", operator, Undefined, << >>, << operand >>)

\* children: the callee, then the arguments
CallExpression(callee, args) ==
    Node("CallExpression", "", Undefined, << >>, << callee >> \o args)

AssignmentExpression(identifier, value) ==
    Node("AssignmentExpression", identifier, Undefined, << >>, << value >>)

Identifier(name) == Node("Identifier", name, Undefined, << >>, << >>)

\* name holds the literal's type tag
Literal(value, tag) == Node("Literal", tag, value, << >>, << >>)

(***************************************************************************)
(* The parser (compiler/parser).  ts is the parser's token list (NEWLINE   *)
(* tokens removed), cur its field current.  A rule returns the node it     *)
(* built and the value of current it leaves, or the ParseError it threw    *)
(* with current as it was at the throw.                                    *)
(***************************************************************************)
NoToken == Token("", "", 0, 0)

NoError == [thrown |-> FALSE, message |-> "", token |-> NoToken]

ParseError(message, token) ==
    [thrown |-> TRUE, message |-> message, token |-> token]

Parsed(node, current) == [node |-> node, current |-> current, error |-> NoError]

Throw(message, token, current) ==
    [node |-> NoNode, current |-> current, error |-> ParseError(message, token)]

\* the constructor's filter
WithoutNewlines(tokens) == SelectSeq(tokens, LAMBDA t : t.type # "NEWLINE")

\* Parser.peek()
ParserPeek(ts, cur) == IF cur < Len(ts) THEN ts[cur + 1] ELSE ts[Len(ts)]

\* Parser.previous()
ParserPrevious(ts, cur) == ts[cur]

\* Parser.isAtEnd()
IsAtEnd(ts, cur) == ParserPeek(ts, cur).type = "EOF"

\* Parser.advance(): the value of current after it
ParserAdvance(ts, cur) == IF ~IsAtEnd(ts, cur) THEN cur + 1 ELSE cur

\* A faulty check that takes an UNKNOWN token for the type asked for: C16
\* fails under it.
CheckOrUnknown(ts, cur, type) ==
    ~IsAtEnd(ts, cur) /\ ParserPeek(ts, cur).type \in {type, "UNKNOWN"}

\* Parser.check(type)
Check(ts, cur, type) == ~IsAtEnd(ts, cur) /\ ParserPeek(ts, cur).type = type

\* Parser.match(...types): whether it matched (current then advances by 1)
Match(ts, cur, types) == \E type \in types : Check(ts, cur, type)

\* A faulty consume whose error carries previous() instead of peek(): C10
\* fails under it.
ConsumeReportingPrevious(ts, cur, type, message) ==
    IF Check(ts, cur, type)
    THEN [token |-> ParserPeek(ts, cur), current |-> ParserAdvance(ts, cur),
          error |-> NoError]
    ELSE [token |-> NoToken, current |-> cur,
          error |-> ParseError(message, IF cur > 0 THEN ParserPrevious(ts, cur)
                                        ELSE NoToken)]

\* Parser.consume(type, message): the token consumed, or the error thrown
Consume(ts, cur, type, message) ==
    IF Check(ts, cur, type)
    THEN [token |-> ParserPeek(ts, cur), current |-> ParserAdvance(ts, cur),
          error |-> NoError]
    ELSE [token |-> NoToken, current |-> cur,
          error |-> ParseError(message, ParserPeek(ts, cur))]

\* a rule's result when a consume inside it threw
Rethrow(c) == [node |-> NoNode, current |-> c.current, error |-> c.error]

\* The binary rules: or, and, equality, comparison, term, factor.
BinaryRules == << "or", "and", "equality", "comparison", "term", "factor" >>

\* Faulty token types, those of term and factor exchanged: C17 fails under
\* them.
BinaryTypesExchanged(rule) ==
    CASE rule = "or" -> {"OR"}
      [] rule = "and" -> {"AND"}
      [] rule = "equality" -> {"NOT_EQUAL", "EQUAL"}
      [] rule = "comparison" ->
            {"GREATER_THAN", "GREATER_EQUAL", "LESS_THAN", "LESS_EQUAL"}
      [] rule = "term" -> {"DIVIDE", "MULTIPLY", "MODULO"}
      [] rule = "factor" -> {"MINUS", "PLUS"}

\* the token types the binary rule named rule matches
BinaryTypes(rule) ==
    CASE rule = "or" -> {"OR"}
      [] rule = "and" -> {"AND"}
      [] rule = "equality" -> {"NOT_EQUAL", "EQUAL"}
      [] rule = "comparison" ->
            {"GREATER_THAN", "GREATER_EQUAL", "LESS_THAN", "LESS_EQUAL"}
      [] rule = "term" -> {"MINUS", "PLUS"}
      [] rule = "factor" -> {"DIVIDE", "MULTIPLY", "MODULO"}

\* the rule a binary rule calls for its operands ("unary" after factor)
NextRule(rule) ==
    CASE rule = "or" -> "and"
      [] rule = "and" -> "equality"
      [] rule = "equality" -> "comparison"
      [] rule = "comparison" -> "term"
      [] rule = "term" -> "factor"
      [] rule = "factor" -> "unary"

\* The parser's method named name, called with current = cur.  The rules
\* call one another through it.
RECURSIVE Rule(_, _, _)

\* Parser.declaration()
declaration(ts, cur) ==
    IF Match(ts, cur, {"VAR"}) THEN Rule("varDeclaration", ts, cur + 1)
    ELSE IF Match(ts, cur, {"FUNCTION"}) THEN Rule("functionDeclaration", ts, cur + 1)
    ELSE Rule("statement", ts, cur)

\* Parser.varDeclaration()
varDeclaration(ts, cur) ==
    LET name == Consume(ts, cur, "IDENTIFIER", "Expected variable name")
    IN  IF name.error.thrown THEN Rethrow(name)
        ELSE LET init == IF Match(ts, name.current, {"ASSIGN"})
                         THEN Rule("expression", ts, name.current + 1)
                         ELSE Parsed(NoNode, name.current)
             IN  IF init.error.thrown THEN init
                 ELSE LET semi == Consume(ts, init.current, "SEMICOLON",
                                    "Expected ';' after variable declaration")
                      IN  IF semi.error.thrown THEN Rethrow(semi)
                          ELSE Parsed(VarDeclaration(name.token.value, init.node),
                                      semi.current)

\* The do-while loop of functionDeclaration: the parameter names read so
\* far are in the result's node.parameters.
RECURSIVE parameterList(_, _, _)
parameterList(ts, cur, parameters) ==
    LET p == Consume(ts, cur, "IDENTIFIER", "Expected parameter name")
    IN  IF p.error.thrown THEN Rethrow(p)
        ELSE IF Match(ts, p.current, {"COMMA"})
        THEN parameterList(ts, p.current + 1, Append(parameters, p.token.value))
        ELSE Parsed(Node("parameters", "", Undefined,
                         Append(parameters, p.token.value), << >>), p.current)

\* The loop of a function body and of a block: declarations up to RBRACE
\* or the end; the result's node is a BlockStatement of them.
RECURSIVE statementList(_, _, _)
statementList(ts, cur, statements) ==
    IF ~Check(ts, cur, "RBRACE") /\ ~IsAtEnd(ts, cur)
    THEN LET stmt == Rule("declaration", ts, cur)
         IN  IF stmt.error.thrown THEN stmt
             ELSE statementList(ts, stmt.current, Append(statements, stmt.node))
    ELSE Parsed(BlockStatement(statements), cur)

\* Parser.functionDeclaration()
functionDeclaration(ts, cur) ==
    LET name == Consume(ts, cur, "IDENTIFIER", "Expected function name")
    IN  IF name.error.thrown THEN Rethrow(name)
    ELSE
    LET lp == Consume(ts, name.current, "LPAREN", "Expected '(' after function name")
    IN  IF lp.error.thrown THEN Rethrow(lp)
    ELSE
    LET params == IF ~Check(ts, lp.current, "RPAREN")
                  THEN parameterList(ts, lp.current, << >>)
                  ELSE Parsed(NoNode, lp.current)
    IN  IF params.error.thrown THEN params
    ELSE
    LET rp == Consume(ts, params.current, "RPAREN", "Expected ')' after parameters")
    IN  IF rp.error.thrown THEN Rethrow(rp)
    ELSE
    LET lb == Consume(ts, rp.current, "LBRACE", "Expected '{' before function body")
    IN  IF lb.error.thrown THEN Rethrow(lb)
    ELSE
    LET body == statementList(ts, lb.current, << >>)
    IN  IF body.error.thrown THEN body
    ELSE
    LET rb == Consume(ts, body.current, "RBRACE", "Expected '}' after function body")
    IN  IF rb.error.thrown THEN Rethrow(rb)
        ELSE Parsed(FunctionDeclaration(name.token.value, params.node.parameters,
                                        body.node.children), rb.current)

\* Parser.statement()
statement(ts, cur) ==
    IF Match(ts, cur, {"IF"}) THEN Rule("ifStatement", ts, cur + 1)
    ELSE IF Match(ts, cur, {"WHILE"}) THEN Rule("whileStatement", ts, cur + 1)
    ELSE IF Match(ts, cur, {"FOR"}) THEN Rule("forStatement", ts, cur + 1)
    ELSE IF Match(ts, cur, {"RETURN"}) THEN Rule("returnStatement", ts, cur + 1)
    ELSE IF Match(ts, cur, {"LBRACE"}) THEN Rule("blockStatement", ts, cur + 1)
    ELSE Rule("expressionStatement", ts, cur)

\* Parser.ifStatement()
ifStatement(ts, cur) ==
    LET lp == Consume(ts, cur, "LPAREN", "Expected '(' after 'if'")
    IN  IF lp.error.thrown THEN Rethrow(lp)
    ELSE
    LET condition == Rule("expression", ts, lp.current)
    IN  IF condition.error.thrown THEN condition
    ELSE
    LET rp == Consume(ts, condition.current, "RPAREN", "Expected ')' after if condition")
    IN  IF rp.error.thrown THEN Rethrow(rp)
    ELSE
    LET thenStatement == Rule("statement", ts, rp.current)
    IN  IF thenStatement.error.thrown THEN thenStatement
    ELSE
    LET elseStatement == IF Match(ts, thenStatement.current, {"ELSE"})
                         THEN Rule("statement", ts, thenStatement.current + 1)
                         ELSE Parsed(NoNode, thenStatement.current)
    IN  IF elseStatement.error.thrown THEN elseStatement
        ELSE Parsed(IfStatement(condition.node, thenStatement.node,
                                elseStatement.node), elseStatement.current)

\* Parser.whileStatement()
whileStatement(ts, cur) ==
    LET lp == Consume(ts, cur, "LPAREN", "Expected '(' after 'while'")
    IN  IF lp.error.thrown THEN Rethrow(lp)
    ELSE
    LET condition == Rule("expression", ts, lp.current)
    IN  IF condition.error.thrown THEN condition
    ELSE
    LET rp == Consume(ts, condition.current, "RPAREN", "Expected ')' after while condition")
    IN  IF rp.error.thrown THEN Rethrow(rp)
    ELSE
    LET body == Rule("statement", ts, rp.current)
    IN  IF body.error.thrown THEN body
        ELSE Parsed(WhileStatement(condition.node, body.node), body.current)

\* Parser.forStatement()
forStatement(ts, cur) ==
    LET lp == Consume(ts, cur, "LPAREN", "Expected '(' after 'for'")
    IN  IF lp.error.thrown THEN Rethrow(lp)
    ELSE
    LET initializer ==
            IF Match(ts, lp.current, {"SEMICOLON"}) THEN Parsed(NoNode, lp.current + 1)
            ELSE IF Match(ts, lp.current, {"VAR"}) THEN Rule("varDeclaration", ts, lp.current + 1)
            ELSE Rule("expressionStatement", ts, lp.current)
    IN  IF initializer.error.thrown THEN initializer
    ELSE
    LET condition == IF ~Check(ts, initializer.current, "SEMICOLON")
                     THEN Rule("expression", ts, initializer.current)
                     ELSE Parsed(NoNode, initializer.current)
    IN  IF condition.error.thrown THEN condition
    ELSE
    LET semi == Consume(ts, condition.current, "SEMICOLON", "Expected ';' after for loop condition")
    IN  IF semi.error.thrown THEN Rethrow(semi)
    ELSE
    LET increment == IF ~Check(ts, semi.current, "RPAREN")
                     THEN Rule("expression", ts, semi.current)
                     ELSE Parsed(NoNode, semi.current)
    IN  IF increment.error.thrown THEN increment
    ELSE
    LET rp == Consume(ts, increment.current, "RPAREN", "Expected ')' after for clauses")
    IN  IF rp.error.thrown THEN Rethrow(rp)
    ELSE
    LET body == Rule("statement", ts, rp.current)
    IN  IF body.error.thrown THEN body
        ELSE Parsed(ForStatement(initializer.node, condition.node,
                                 increment.node, body.node), body.current)

\* Parser.returnStatement()
returnStatement(ts, cur) ==
    LET value == IF ~Check(ts, cur, "SEMICOLON") THEN Rule("expression", ts, cur)
                 ELSE Parsed(NoNode, cur)
    IN  IF value.error.thrown THEN value
    ELSE
    LET semi == Consume(ts, value.current, "SEMICOLON", "Expected ';' after return value")
    IN  IF semi.error.thrown THEN Rethrow(semi)
        ELSE Parsed(ReturnStatement(value.node), semi.current)

\* Parser.blockStatement()
blockStatement(ts, cur) ==
    LET statements == statementList(ts, cur, << >>)
    IN  IF statements.error.thrown THEN statements
    ELSE
    LET rb == Consume(ts, statements.current, "RBRACE", "Expected '}' after block")
    IN  IF rb.error.thrown THEN Rethrow(rb)
        ELSE Parsed(statements.node, rb.current)

\* Parser.expressionStatement()
expressionStatement(ts, cur) ==
    LET expr == Rule("expression", ts, cur)
    IN  IF expr.error.thrown THEN expr
    ELSE
    LET semi == Consume(ts, expr.current, "SEMICOLON", "Expected ';' after expression")
    IN  IF semi.error.thrown THEN Rethrow(semi)
        ELSE Parsed(ExpressionStatement(expr.node), semi.current)

\* Parser.expression()
expression(ts, cur) == Rule("assignment", ts, cur)

\* A faulty assignment that does not look at the node on the left: C18
\* fails under it.
assignmentUnchecked(ts, cur) ==
    LET expr == Rule("or", ts, cur)
    IN  IF expr.error.thrown THEN expr
        ELSE IF Match(ts, expr.current, {"ASSIGN"})
        THEN LET value == Rule("assignment", ts, expr.current + 1)
             IN  IF value.error.thrown THEN value
                 ELSE Parsed(AssignmentExpression(expr.node.name, value.node),
                             value.current)
        ELSE expr

\* A faulty assignment whose right-hand side is not an assignment: C32
\* fails under it.
assignmentOnce(ts, cur) ==
    LET expr == Rule("or", ts, cur)
    IN  IF expr.error.thrown THEN expr
        ELSE IF Match(ts, expr.current, {"ASSIGN"})
        THEN LET value == Rule("or", ts, expr.current + 1)
             IN  IF value.error.thrown THEN value
                 ELSE IF expr.node.kind = "Identifier"
                 THEN Parsed(AssignmentExpression(expr.node.name, value.node),
                             value.current)
                 ELSE Throw("Invalid assignment target",
                            ParserPrevious(ts, value.current), value.current)
        ELSE expr

\* Parser.assignment()
assignment(ts, cur) ==
    LET expr == Rule("or", ts, cur)
    IN  IF expr.error.thrown THEN expr
        ELSE IF Match(ts, expr.current, {"ASSIGN"})
        THEN LET value == Rule("assignment", ts, expr.current + 1)
             IN  IF value.error.thrown THEN value
                 ELSE IF expr.node.kind = "Identifier"
                 THEN Parsed(AssignmentExpression(expr.node.name, value.node),
                             value.current)
                 ELSE Throw("Invalid assignment target",
                            ParserPrevious(ts, value.current), value.current)
        ELSE expr

\* the while loop of a binary rule, expr being the expression built so far
RECURSIVE binaryLoop(_, _, _)
binaryLoop(ts, expr, rule) ==
    IF Match(ts, expr.current, BinaryTypes(rule))
    THEN LET operator == ParserPrevious(ts, expr.current + 1).value
             right == Rule(NextRule(rule), ts, expr.current + 1)
         IN  IF right.error.thrown THEN right
             ELSE binaryLoop(ts, Parsed(BinaryExpression(expr.node, operator,
                                                         right.node),
                                        right.current), rule)
    ELSE expr

\* Parser.or(), and(), equality(), comparison(), term(), factor(): the
\* rule named rule
binary(ts, cur, rule) ==
    LET expr == Rule(NextRule(rule), ts, cur)
    IN  IF expr.error.thrown THEN expr ELSE binaryLoop(ts, expr, rule)

\* Parser.unary()
unary(ts, cur) ==
    IF Match(ts, cur, {"NOT", "MINUS"})
    THEN LET operator == ParserPrevious(ts, cur + 1).value
             right == Rule("unary", ts, cur + 1)
         IN  IF right.error.thrown THEN right
             ELSE Parsed(UnaryExpression(operator, right.node), right.current)
    ELSE Rule("call", ts, cur)

\* the do-while loop of finishCall: a BlockStatement node carries the
\* arguments read
RECURSIVE argumentList(_, _, _)
argumentList(ts, cur, args) ==
    LET arg == Rule("expression", ts, cur)
    IN  IF arg.error.thrown THEN arg
        ELSE IF Match(ts, arg.current, {"COMMA"})
        THEN argumentList(ts, arg.current + 1, Append(args, arg.node))
        ELSE Parsed(BlockStatement(Append(args, arg.node)), arg.current)

\* Parser.finishCall(callee)
finishCall(ts, cur, callee) ==
    LET args == IF ~Check(ts, cur, "RPAREN") THEN argumentList(ts, cur, << >>)
                ELSE Parsed(BlockStatement(<< >>), cur)
    IN  IF args.error.thrown THEN args
    ELSE
    LET rp == Consume(ts, args.current, "RPAREN", "Expected ')' after arguments")
    IN  IF rp.error.thrown THEN Rethrow(rp)
        ELSE Parsed(CallExpression(callee, args.node.children), rp.current)

\* the while loop of call
RECURSIVE callLoop(_, _)
callLoop(ts, expr) ==
    IF Match(ts, expr.current, {"LPAREN"})
    THEN LET c == finishCall(ts, expr.current + 1, expr.node)
         IN  IF c.error.thrown THEN c ELSE callLoop(ts, c)
    ELSE expr

\* Parser.call()
call(ts, cur) ==
    LET expr == Rule("primary", ts, cur)
    IN  IF expr.error.thrown THEN expr ELSE callLoop(ts, expr)

\* Parser.primary()
primary(ts, cur) ==
    IF Match(ts, cur, {"TRUE"}) THEN Parsed(Literal(Bool(TRUE), "boolean"), cur + 1)
    ELSE IF Match(ts, cur, {"FALSE"}) THEN Parsed(Literal(Bool(FALSE), "boolean"), cur + 1)
    ELSE IF Match(ts, cur, {"NULL"}) THEN Parsed(Literal(Null, "null"), cur + 1)
    ELSE IF Match(ts, cur, {"NUMBER"})
    THEN Parsed(Literal(ParseFloat(ParserPrevious(ts, cur + 1).value), "number"), cur + 1)
    ELSE IF Match(ts, cur, {"STRING"})
    THEN Parsed(Literal(Str(ParserPrevious(ts, cur + 1).value), "string"), cur + 1)
    ELSE IF Match(ts, cur, {"IDENTIFIER"})
    THEN Parsed(Identifier(ParserPrevious(ts, cur + 1).value), cur + 1)
    ELSE IF Match(ts, cur, {"LPAREN"})
    THEN LET expr == Rule("expression", ts, cur + 1)
         IN  IF expr.error.thrown THEN expr
             ELSE LET rp == Consume(ts, expr.current, "RPAREN",
                                    "Expected ')' after expression")
                  IN  IF rp.error.thrown THEN Rethrow(rp)
                      ELSE Parsed(expr.node, rp.current)
    ELSE Throw("Expected expression", ParserPeek(ts, cur), cur)

Rule(name, ts, cur) ==
    CASE name = "declaration" -> declaration(ts, cur)
      [] name = "varDeclaration" -> varDeclaration(ts, cur)
      [] name = "functionDeclaration" -> functionDeclaration(ts, cur)
      [] name = "statement" -> statement(ts, cur)
      [] name = "ifStatement" -> ifStatement(ts, cur)
      [] name = "whileStatement" -> whileStatement(ts, cur)
      [] name = "forStatement" -> forStatement(ts, cur)
      [] name = "returnStatement" -> returnStatement(ts, cur)
      [] name = "blockStatement" -> blockStatement(ts, cur)
      [] name = "expressionStatement" -> expressionStatement(ts, cur)
      [] name = "expression" -> expression(ts, cur)
      [] name = "assignment" -> assignment(ts, cur)
      [] name \in {"or", "and", "equality", "comparison", "term", "factor"} ->
            binary(ts, cur, name)
      [] name = "unary" -> unary(ts, cur)
      [] name = "call" -> call(ts, cur)
      [] name = "primary" -> primary(ts, cur)

\* The loop of synchronize after its first advance()
RECURSIVE synchronizeLoop(_, _)
synchronizeLoop(ts, cur) ==
    IF IsAtEnd(ts, cur) THEN cur
    ELSE IF ParserPrevious(ts, cur).type = "SEMICOLON" THEN cur
    ELSE IF ParserPeek(ts, cur).type \in
              {"VAR", "FUNCTION", "IF", "WHILE", "FOR", "RETURN"} THEN cur
    ELSE synchronizeLoop(ts, ParserAdvance(ts, cur))

\* A faulty synchronize that leaves current where the error was thrown:
\* C19 fails under it.
synchronizeNowhere(ts, cur) == cur

\* Parser.synchronize(): the value of current after it
synchronize(ts, cur) == synchronizeLoop(ts, ParserAdvance(ts, cur))

\* The loop of parse
RECURSIVE parseLoop(_, _, _)
parseLoop(ts, cur, statements) ==
    IF IsAtEnd(ts, cur) THEN Parsed(Program(statements), cur)
    ELSE LET stmt == Rule("declaration", ts, cur)
         IN  IF stmt.error.thrown
             THEN [stmt EXCEPT !.current = synchronize(ts, stmt.current)]
             ELSE parseLoop(ts, stmt.current, Append(statements, stmt.node))

\* new Parser(tokens).parse()
parse(tokens) == parseLoop(WithoutNewlines(tokens), 0, << >>)

(***************************************************************************)
(* The bytecode generator (compiler/bytecode, class BytecodeGenerator).    *)
(* A generator state g holds the object's fields.  A throw sets g.thrown   *)
(* and g.message; nothing the generator does after a throw has an effect.  *)
(* g.pending is a history variable: the indices of the jump instructions   *)
(* emitted with a placeholder target and not patched yet.  g.declared is a *)
(* history variable: one entry per var declaration compiled.               *)
(* g.requested is a history variable: one entry per call of addConstant,   *)
(* the value asked for and the index returned.  g.stored is a history      *)
(* variable: one entry per parameter of a function declaration compiled,   *)
(* and g.bodies one entry per function declaration: its name, parameters   *)
(* and first and last address.                                             *)
(***************************************************************************)
\* the operand of an instruction emitted without one (undefined)
NoOperand == -1

\* BytecodeGenerator.currentLine
currentLine == 1

Instruction(opcode, operand, line) ==
    [opcode |-> opcode, operand |-> operand, line |-> line]

EmptyMap == [name \in {} |-> 0]

\* Map.set(key, value)
MapSet(map, key, value) ==
    [k \in DOMAIN map \cup {key} |-> IF k = key THEN value ELSE map[k]]

\* Map.has(key), Map.size
MapHas(map, key) == key \in DOMAIN map

MapSize(map) == Cardinality(DOMAIN map)

\* new BytecodeGenerator()
NewGenerator ==
    [instructions |-> << >>, constants |-> << >>, variables |-> EmptyMap,
     functions |-> EmptyMap, thrown |-> FALSE, message |-> "",
     pending |-> {}, declared |-> << >>, bodies |-> {}, requested |-> << >>,
     stored |-> << >>]

\* throw new Error(message)
GenThrow(g, message) ==
    IF g.thrown THEN g ELSE [g EXCEPT !.thrown = TRUE, !.message = message]

\* BytecodeGenerator.emit(opcode, operand)
Emit(g, opcode, operand) ==
    IF g.thrown THEN g
    ELSE [g EXCEPT !.instructions =
                       Append(@, Instruction(opcode, operand, currentLine))]

\* emit(opcode, 0) of a placeholder target
EmitPlaceholder(g, opcode) ==
    IF g.thrown THEN g
    ELSE [Emit(g, opcode, 0) EXCEPT !.pending = @ \cup {Len(g.instructions)}]

\* A faulty Patch, its target one past this.instructions.length: C4 fails
\* under it.
PatchPastLength(g, index) ==
    IF g.thrown THEN g
    ELSE [g EXCEPT !.instructions[index + 1].operand = Len(g.instructions) + 1,
                   !.pending = @ \ {index}]

\* this.instructions[index].operand = this.instructions.length
Patch(g, index) ==
    IF g.thrown THEN g
    ELSE [g EXCEPT !.instructions[index + 1].operand = Len(g.instructions),
                   !.pending = @ \ {index}]

\* A faulty indexOf that finds nothing: C12 fails under it.
IndexOfNothing(array, value) == -1

\* Array.indexOf(value): the first 0-based index holding a value strictly
\* equal to value, -1 when there is none
IndexOf(array, value) ==
    IF \E i \in 1..Len(array) : StrictEquals(array[i], value)
    THEN (CHOOSE i \in 1..Len(array) :
             /\ StrictEquals(array[i], value)
             /\ \A j \in 1..(i - 1) : ~StrictEquals(array[j], value)) - 1
    ELSE -1

\* BytecodeGenerator.addConstant(value): the generator after the call
AddConstant(g, value) ==
    IF g.thrown \/ IndexOf(g.constants, value) # -1 THEN g
    ELSE [g EXCEPT !.constants = Append(@, value)]

\* BytecodeGenerator.addConstant(value): the index it returns
AddConstantIndex(g, value) ==
    IF IndexOf(g.constants, value) # -1 THEN IndexOf(g.constants, value)
    ELSE Len(g.constants)

\* this.emit(OpCode.LOAD_CONST, this.addConstant(value))
EmitConstant(g, value) ==
    IF g.thrown THEN g
    ELSE LET index == AddConstantIndex(g, value)
         IN  Emit([AddConstant(g, value) EXCEPT
                      !.requested = Append(@, [value |-> value, index |-> index])],
                  "LOAD_CONST", index)

\* The opcode the switch of visitBinaryExpression emits ("" for none)
BinaryOpCode(operator) ==
    CASE operator = "+" -> "ADD"
      [] operator = "-" -> "SUBTRACT"
      [] operator = "*" -> "MULTIPLY"
      [] operator = "/" -> "DIVIDE"
      [] operator = "%" -> "MODULO"
      [] operator = "==" -> "EQUAL"
      [] operator = "!=" -> "NOT_EQUAL"
      [] operator = "<" -> "LESS_THAN"
      [] operator = ">" -> "GREATER_THAN"
      [] operator = "<=" -> "LESS_EQUAL"
      [] operator = ">=" -> "GREATER_EQUAL"
      [] operator = "&&" -> "AND"
      [] operator = "||" -> "OR"
      [] OTHER -> ""

\* The opcode the switch of visitUnaryExpression emits ("" for none)
UnaryOpCode(operator) ==
    CASE operator = "-" -> "NEGATE"
      [] operator = "!" -> "NOT"
      [] OTHER -> ""

\* what the parameter loop does for a parameter: its name, the index it is
\* given and the address of its STORE_VAR (kept in stored for the
\* properties, not a field of the generator)
StoredParameter(g, name) ==
    [name |-> name, index |-> MapSize(g.variables), address |-> Len(g.instructions)]

RECURSIVE accept(_, _), acceptAll(_, _), visitProgram(_, _),
          visitVarDeclaration(_, _), visitFunctionDeclaration(_, _),
          visitIfStatement(_, _), visitWhileStatement(_, _),
          visitForStatement(_, _), visitReturnStatement(_, _),
          visitBlockStatement(_, _), visitExpressionStatement(_, _),
          visitBinaryExpression(_, _), visitUnaryExpression(_, _),
          visitCallExpression(_, _), visitIdentifier(_, _),
          visitLiteral(_, _), visitAssignmentExpression(_, _)

\* node.accept(this): the double dispatch to the visitor method of the
\* node's class
accept(node, g) ==
    IF g.thrown THEN g
    ELSE CASE node.kind = "Program" -> visitProgram(node, g)
           [] node.kind = "VarDeclaration" -> visitVarDeclaration(node, g)
           [] node.kind = "FunctionDeclaration" -> visitFunctionDeclaration(node, g)
           [] node.kind = "IfStatement" -> visitIfStatement(node, g)
           [] node.kind = "WhileStatement" -> visitWhileStatement(node, g)
           [] node.kind = "ForStatement" -> visitForStatement(node, g)
           [] node.kind = "ReturnStatement" -> visitReturnStatement(node, g)
           [] node.kind = "BlockStatement" -> visitBlockStatement(node, g)
           [] node.kind = "ExpressionStatement" -> visitExpressionStatement(node, g)
           [] node.kind = "BinaryExpression" -> visitBinaryExpression(node, g)
           [] node.kind = "UnaryExpression" -> visitUnaryExpression(node, g)
           [] node.kind = "CallExpression" -> visitCallExpression(node, g)
           [] node.kind = "Identifier" -> visitIdentifier(node, g)
           [] node.kind = "Literal" -> visitLiteral(node, g)
           [] node.kind = "AssignmentExpression" -> visitAssignmentExpression(node, g)

\* for (const statement of nodes) statement.accept(this)
acceptAll(nodes, g) ==
    IF nodes = << >> THEN g ELSE acceptAll(Tail(nodes), accept(Head(nodes), g))

visitProgram(node, g) == acceptAll(node.children, g)

visitVarDeclaration(node, g) ==
    LET initializer == node.children[1]
        g1 == IF initializer # NoNode THEN accept(initializer, g)
              ELSE EmitConstant(g, Null)
        varIndex == MapSize(g1.variables)
        entry == [name |-> node.name,
                  had |-> IF MapHas(g1.variables, node.name)
                          THEN g1.variables[node.name] ELSE -1,
                  index |-> varIndex]
    IN  IF g1.thrown THEN g1
        ELSE Emit([g1 EXCEPT !.variables = MapSet(@, node.name, varIndex),
                             !.declared = Append(@, entry)],
                  "STORE_VAR", varIndex)

\* A faulty parameter loop that runs from the first parameter up: C34
\* fails under it.
RECURSIVE storeParametersForward(_, _, _)
storeParametersForward(parameters, i, g) ==
    IF i < 1 THEN g
    ELSE LET paramIndex == MapSize(g.variables)
             name == parameters[Len(parameters) + 1 - i]
         IN  storeParametersForward(parameters, i - 1,
                 Emit([g EXCEPT !.variables = MapSet(@, name, paramIndex),
                                !.stored = Append(@, StoredParameter(g, name))],
                      "STORE_VAR", paramIndex))

\* The parameter loop of visitFunctionDeclaration, from parameter i down
RECURSIVE storeParameters(_, _, _)
storeParameters(parameters, i, g) ==
    IF i < 1 THEN g
    ELSE LET paramIndex == MapSize(g.variables)
         IN  storeParameters(parameters, i - 1,
                 Emit([g EXCEPT !.variables = MapSet(@, parameters[i], paramIndex),
                                !.stored = Append(@, StoredParameter(g, parameters[i]))],
                      "STORE_VAR", paramIndex))

visitFunctionDeclaration(node, g) ==
    LET functionAddress == Len(g.instructions)
        g1 == [g EXCEPT !.functions =
                   MapSet(@, node.name, [address |-> functionAddress,
                                         arity |-> Len(node.parameters)])]
        g2 == storeParameters(node.parameters, Len(node.parameters), g1)
        g3 == acceptAll(node.children, g2)
        g4 == Emit(EmitConstant(g3, Null), "RETURN", NoOperand)
    IN  IF g4.thrown THEN g4
        ELSE [g4 EXCEPT !.bodies = @ \cup {[name |-> node.name,
                                            parameters |-> node.parameters,
                                            first |-> functionAddress,
                                            last |-> Len(g4.instructions) - 1]}]

visitIfStatement(node, g) ==
    LET condition == node.children[1]
        thenStatement == node.children[2]
        elseStatement == node.children[3]
        g1 == accept(condition, g)
        jumpIfFalse == Len(g1.instructions)
        g2 == accept(thenStatement, EmitPlaceholder(g1, "JUMP_IF_FALSE"))
    IN  IF elseStatement # NoNode
        THEN LET jump == Len(g2.instructions)
                 g3 == Patch(EmitPlaceholder(g2, "JUMP"), jumpIfFalse)
             IN  Patch(accept(elseStatement, g3), jump)
        ELSE Patch(g2, jumpIfFalse)

\* A faulty while whose back-jump goes to the JUMP_IF_FALSE, past the
\* condition: C33 fails under it.
visitWhileStatementConditionOnce(node, g) ==
    LET condition == node.children[1]
        body == node.children[2]
        g1 == accept(condition, g)
        jumpIfFalse == Len(g1.instructions)
        g2 == accept(body, EmitPlaceholder(g1, "JUMP_IF_FALSE"))
    IN  Patch(Emit(g2, "JUMP", jumpIfFalse), jumpIfFalse)

visitWhileStatement(node, g) ==
    LET condition == node.children[1]
        body == node.children[2]
        loopStart == Len(g.instructions)
        g1 == accept(condition, g)
        jumpIfFalse == Len(g1.instructions)
        g2 == accept(body, EmitPlaceholder(g1, "JUMP_IF_FALSE"))
    IN  Patch(Emit(g2, "JUMP", loopStart), jumpIfFalse)

visitForStatement(node, g) ==
    LET initializer == node.children[1]
        condition == node.children[2]
        increment == node.children[3]
        body == node.children[4]
        g1 == IF initializer # NoNode
              THEN IF initializer.kind = "ExpressionStatement"
                   THEN Emit(accept(initializer, g), "POP", NoOperand)
                   ELSE accept(initializer, g)
              ELSE g
        loopStart == Len(g1.instructions)
        g2 == IF condition # NoNode THEN accept(condition, g1)
              ELSE EmitConstant(g1, Bool(TRUE))
        jumpIfFalse == Len(g2.instructions)
        g3 == accept(body, EmitPlaceholder(g2, "JUMP_IF_FALSE"))
        g4 == IF increment # NoNode
              THEN Emit(accept(increment, g3), "POP", NoOperand)
              ELSE g3
    IN  Patch(Emit(g4, "JUMP", loopStart), jumpIfFalse)

visitReturnStatement(node, g) ==
    LET value == node.children[1]
        g1 == IF value # NoNode THEN accept(value, g) ELSE EmitConstant(g, Null)
    IN  Emit(g1, "RETURN", NoOperand)

\* BlockStatement has no visitor method in compiler/bytecode; its accept
\* is taken to compile the block's statements in order.
visitBlockStatement(node, g) == acceptAll(node.children, g)

visitExpressionStatement(node, g) ==
    Emit(accept(node.children[1], g), "POP", NoOperand)

\* A faulty visitBinaryExpression that compiles the right operand before
\* the left: C22 fails under it.
visitBinaryExpressionRightFirst(node, g) ==
    LET g1 == accept(node.children[1], accept(node.children[2], g))
    IN  IF BinaryOpCode(node.name) # ""
        THEN Emit(g1, BinaryOpCode(node.name), NoOperand)
        ELSE g1

visitBinaryExpression(node, g) ==
    LET g1 == accept(node.children[2], accept(node.children[1], g))
    IN  IF BinaryOpCode(node.name) # ""
        THEN Emit(g1, BinaryOpCode(node.name), NoOperand)
        ELSE g1

visitUnaryExpression(node, g) ==
    LET g1 == accept(node.children[1], g)
    IN  IF UnaryOpCode(node.name) # ""
        THEN Emit(g1, UnaryOpCode(node.name), NoOperand)
        ELSE g1

\* A faulty visitCallExpression that knows the English names only: C28
\* fails under it.
visitCallExpressionEnglish(node, g) ==
    LET callee == node.children[1]
        args == Tail(node.children)
    IN  IF callee.kind = "Identifier" /\ callee.name = "print"
        THEN Emit(acceptAll(args, g), "PRINT", Len(args))
        ELSE IF callee.kind = "Identifier" /\ callee.name = "input"
        THEN Emit(g, "INPUT", NoOperand)
        ELSE Emit(accept(callee, acceptAll(args, g)), "CALL", Len(args))

visitCallExpression(node, g) ==
    LET callee == node.children[1]
        args == Tail(node.children)
    IN  IF callee.kind = "Identifier" /\ callee.name \in {"print", "achchidu"}
        THEN Emit(acceptAll(args, g), "PRINT", Len(args))
        ELSE IF callee.kind = "Identifier" /\ callee.name \in {"input", "ulle"}
        THEN Emit(g, "INPUT", NoOperand)
        ELSE Emit(accept(callee, acceptAll(args, g)), "CALL", Len(args))

\* A faulty visitIdentifier that loads an unknown name instead of throwing:
\* C9 fails under it.
visitIdentifierUnchecked(node, g) ==
    IF MapHas(g.variables, node.name)
    THEN Emit(g, "LOAD_VAR", g.variables[node.name])
    ELSE Emit(g, "LOAD_VAR", NoOperand)

visitIdentifier(node, g) ==
    IF MapHas(g.variables, node.name)
    THEN Emit(g, "LOAD_VAR", g.variables[node.name])
    ELSE IF MapHas(g.functions, node.name)
    THEN EmitConstant(g, Num(g.functions[node.name].address))
    ELSE GenThrow(g, "Undefined variable: " \o node.name)

visitLiteral(node, g) == EmitConstant(g, node.value)

visitAssignmentExpression(node, g) ==
    LET g1 == accept(node.children[1], g)
        varIndex == IF MapHas(g1.variables, node.name)
                    THEN g1.variables[node.name]
                    ELSE MapSize(g1.variables)
    IN  IF g1.thrown THEN g1
        ELSE Emit([g1 EXCEPT !.variables = MapSet(@, node.name, varIndex)],
                  "STORE_VAR", varIndex)

\* BytecodeGenerator.generate(program), on a new generator
generate(program) == Emit(visitProgram(program, NewGenerator), "HALT", NoOperand)

(***************************************************************************)
(* The virtual machine (compiler/bytecode, class VirtualMachine).  A VM    *)
(* state vm holds the object's fields pc, stack, variables, callStack and  *)
(* output, and error: the message of the Error an instruction threw ("" if *)
(* none).  Indices (pc, operands) are 0-based as in the code.              *)
(***************************************************************************)
\* Array.pop(): the array it leaves; an empty array stays empty ...
PopRest(array) == IF array = << >> THEN << >> ELSE SubSeq(array, 1, Len(array) - 1)

\* ... and the value it returns, undefined for an empty array
PopValue(array) == IF array = << >> THEN Undefined ELSE array[Len(array)]

\* array[index] of a 0-based index, undefined out of range
At(array, index) ==
    IF index >= 0 /\ index < Len(array) THEN array[index + 1] ELSE Undefined

\* A faulty loop that pushes undefined, as a write past the end of the
\* array would leave the gap: C31 fails under it.
RECURSIVE GrowWithUndefined(_, _)
GrowWithUndefined(variables, operand) ==
    IF Len(variables) <= operand
    THEN GrowWithUndefined(Append(variables, Undefined), operand)
    ELSE variables

\* while (variables.length <= operand) variables.push(null)
RECURSIVE Grow(_, _)
Grow(variables, operand) ==
    IF Len(variables) <= operand THEN Grow(Append(variables, Null), operand)
    ELSE variables

VmThrow(vm, message) == [vm EXCEPT !.error = message]

\* The binary cases of executeInstruction: b is popped first, then a, and
\* the result pushed.  DIVIDE throws when b === 0, after both pops.
BinaryResult(opcode, a, b) ==
    CASE opcode = "ADD" -> JsAdd(a, b)
      [] opcode = "SUBTRACT" -> NumSub(ToNum(a), ToNum(b))
      [] opcode = "MULTIPLY" -> NumMul(ToNum(a), ToNum(b))
      [] opcode = "DIVIDE" -> NumDiv(ToNum(a), ToNum(b))
      [] opcode = "MODULO" -> NumMod(ToNum(a), ToNum(b))
      [] opcode = "EQUAL" -> Bool(StrictEquals(a, b))
      [] opcode = "NOT_EQUAL" -> Bool(~StrictEquals(a, b))
      [] opcode = "LESS_THAN" -> JsLessThan(a, b)
      [] opcode = "GREATER_THAN" -> JsGreaterThan(a, b)
      [] opcode = "LESS_EQUAL" -> JsLessEqual(a, b)
      [] opcode = "GREATER_EQUAL" -> JsGreaterEqual(a, b)
      [] opcode = "AND" -> (IF Truthy(a) THEN b ELSE a)
      [] opcode = "OR" -> (IF Truthy(a) THEN a ELSE b)

BinaryOpCodes ==
    {"ADD", "SUBTRACT", "MULTIPLY", "DIVIDE", "MODULO", "EQUAL", "NOT_EQUAL",
     "LESS_THAN", "GREATER_THAN", "LESS_EQUAL", "GREATER_EQUAL", "AND", "OR"}

\* A faulty guard that never throws: C6 fails under it.
DivideNeverThrows(b) == FALSE

\* case OpCode.DIVIDE: the guard that throws
DivideThrows(b) == StrictEquals(b, Num(0))

ExecBinary(vm, opcode) ==
    LET b == PopValue(vm.stack)
        s1 == PopRest(vm.stack)
        a == PopValue(s1)
        s2 == PopRest(s1)
    IN  IF opcode = "DIVIDE" /\ DivideThrows(b)
        THEN VmThrow([vm EXCEPT !.stack = s2], "Division by zero")
        ELSE [vm EXCEPT !.stack = Append(s2, BinaryResult(opcode, a, b))]

\* the jump cases: this.pc = instruction.operand - 1
JumpTo(vm, operand) == [vm EXCEPT !.pc = operand - 1]

\* The loop of the PRINT case: count pops, each value put in front of args
RECURSIVE PopArgs(_, _, _)
PopArgs(stack, count, args) ==
    IF count <= 0 THEN [stack |-> stack, args |-> args]
    ELSE PopArgs(PopRest(stack), count - 1, << PopValue(stack) >> \o args)

\* args.map(arg => String(arg)).join(' ')
RECURSIVE JoinArgs(_)
JoinArgs(args) ==
    IF args = << >> THEN ""
    ELSE IF Len(args) = 1 THEN ToStr(args[1])
    ELSE ToStr(args[1]) \o " " \o JoinArgs(Tail(args))

\* case OpCode.PRINT
ExecPrint(vm, operand) ==
    LET argCount == IF operand = NoOperand \/ operand = 0 THEN 1 ELSE operand
        popped == PopArgs(vm.stack, argCount, << >>)
    IN  [vm EXCEPT !.stack = popped.stack,
                   !.output = Append(@, JoinArgs(popped.args))]

\* A faulty LOAD_VAR without the range check, which pushes undefined for an
\* index past the table: C37 fails under it.
LoadVarUnchecked(vm, operand) ==
    [vm EXCEPT !.stack = Append(@, At(vm.variables, operand))]

\* case OpCode.LOAD_VAR
LoadVar(vm, operand) ==
    IF operand >= Len(vm.variables)
    THEN VmThrow(vm, "Undefined variable at index " \o NumberToString(Num(operand)))
    ELSE [vm EXCEPT !.stack = Append(@, At(vm.variables, operand))]

\* VirtualMachine.executeInstruction(instruction); line is what prompt()
\* returns to an INPUT instruction.
executeInstruction(vm, instruction, line) ==
    LET opcode == instruction.opcode
        operand == instruction.operand
    IN  CASE opcode = "LOAD_CONST" ->
                [vm EXCEPT !.stack = Append(@, At(vm.constants, operand))]
          [] opcode = "LOAD_VAR" -> LoadVar(vm, operand)
          [] opcode = "STORE_VAR" ->
                LET value == PopValue(vm.stack)
                IN  [vm EXCEPT
                       !.variables = [Grow(@, operand) EXCEPT ![operand + 1] = value],
                       !.stack = Append(PopRest(@), value)]
          [] opcode \in BinaryOpCodes -> ExecBinary(vm, opcode)
          [] opcode = "NEGATE" ->
                [vm EXCEPT !.stack =
                    Append(PopRest(@), NumNeg(ToNum(PopValue(vm.stack))))]
          [] opcode = "NOT" ->
                [vm EXCEPT !.stack =
                    Append(PopRest(@), Bool(~Truthy(PopValue(vm.stack))))]
          [] opcode = "JUMP" -> JumpTo(vm, operand)
          [] opcode = "JUMP_IF_FALSE" ->
                IF ~Truthy(PopValue(vm.stack))
                THEN JumpTo([vm EXCEPT !.stack = PopRest(@)], operand)
                ELSE [vm EXCEPT !.stack = PopRest(@)]
          [] opcode = "JUMP_IF_TRUE" ->
                IF Truthy(PopValue(vm.stack))
                THEN JumpTo([vm EXCEPT !.stack = PopRest(@)], operand)
                ELSE [vm EXCEPT !.stack = PopRest(@)]
          [] opcode = "PRINT" -> ExecPrint(vm, operand)
          [] opcode = "INPUT" -> [vm EXCEPT !.stack = Append(@, Str(line))]
          [] opcode = "POP" -> [vm EXCEPT !.stack = PopRest(@)]
          [] opcode = "HALT" -> vm
          [] OTHER -> VmThrow(vm, "Unknown opcode: " \o opcode)

\* VirtualMachine.execute(bytecode), up to its loop: the fields reset
StartVm(bytecode) ==
    [instructions |-> bytecode.instructions, constants |-> bytecode.constants,
     pc |-> 0, stack |-> << >>, variables |-> << >>, callStack |-> << >>,
     output |-> << >>, error |-> ""]

\* A faulty start of execute that keeps the output buffer of the run
\* before: C20 fails under it.
RestartKeepingOutput(machine, bytecode) ==
    [machine EXCEPT !.instructions = bytecode.instructions,
                    !.constants = bytecode.constants,
                    !.pc = 0, !.stack = << >>, !.variables = << >>,
                    !.callStack = << >>, !.error = ""]

\* The assignments that start execute(bytecode) on a VirtualMachine that
\* has run before
Restart(machine, bytecode) ==
    [machine EXCEPT !.instructions = bytecode.instructions,
                    !.constants = bytecode.constants,
                    !.pc = 0, !.stack = << >>, !.variables = << >>,
                    !.callStack = << >>, !.output = << >>, !.error = ""]

\* A faulty iteration whose catch returns no output lines: C36 fails under
\* it.
LoopStepLosingOutput(vm, line) ==
    LET after == executeInstruction(vm, vm.instructions[vm.pc + 1], line)
    IN  IF after.error # "" THEN [after EXCEPT !.output = << >>]
        ELSE [after EXCEPT !.pc = @ + 1]

\* One iteration of execute's loop: the instruction at pc, then pc++ unless
\* it threw.
LoopStep(vm, line) ==
    LET after == executeInstruction(vm, vm.instructions[vm.pc + 1], line)
    IN  IF after.error # "" THEN after ELSE [after EXCEPT !.pc = @ + 1]

\* the condition of execute's loop
Running(vm) == vm.error = "" /\ vm.pc < Len(vm.instructions)

(***************************************************************************)
(* compileAndRun (App): the stages lex, parse, generate, execute on the    *)
(* editor's code in the current language.                                  *)
(***************************************************************************)
VARIABLES
    stage,      \* where compileAndRun is: "lex", "parse", "generate", "execute", "done"
    language,   \* currentLanguage
    code,       \* the editor's source text
    tokens,     \* lexer.tokenize()
    parsed,     \* the outcome of parser.parse(): node, current, error
    generator,  \* the BytecodeGenerator after generate()
    vm,         \* the VirtualMachine
    result,     \* the CompilationResult returned
    steps,      \* instructions executed so far (bounded by MaxSteps)
    runs,       \* what each call of vm.execute returned: output and error
    lookup,     \* a call of a function of language/definitions and its result
    app         \* the other state of the App component (useState)

vars ==
    << stage, language, code, tokens, parsed, generator, vm, result, steps, runs,
       lookup, app >>

\* the variables of compileAndRun
pipeline ==
    << stage, language, code, tokens, parsed, generator, vm, result, steps, runs >>

\* a call: the function, its arguments, how many of its steps are done and
\* what they returned
Lookup(function, name, keyword, fromLang, toLang) ==
    [function |-> function, code |-> name, keyword |-> keyword,
     fromLang |-> fromLang, toLang |-> toLang, done |-> 0,
     entry |-> NoLanguage, translated |-> "", back |-> ""]

NoLookup == Lookup("", "", "", "", "")

\* no codeDescription (null), and the description generateCodeDescription
\* makes of a source text in a language: a function of the two, not spelled
NoDescription == [text |-> "", language |-> ""]

Description(text, spelt) == [text |-> text, language |-> spelt.key]

\* the state App starts with, but for code
NewApp ==
    [selectedLanguage |-> "english", output |-> << >>, error |-> "",
     isCompiling |-> FALSE, codeDescription |-> NoDescription,
     showLanguageDropdown |-> FALSE]

NoResult == [returned |-> FALSE, success |-> FALSE, output |-> << >>, error |-> ""]

Failure(error) ==
    [returned |-> TRUE, success |-> FALSE, output |-> << >>, error |-> error]

Success(output) ==
    [returned |-> TRUE, success |-> TRUE, output |-> output, error |-> ""]

\* what prompt() may return to an INPUT instruction (|| "" for a cancel)
\* A faulty return that keeps the lines printed before a runtime error:
\* C30 fails under it.
OutcomeWithOutput(machine) ==
    IF machine.error # ""
    THEN [Failure(machine.error) EXCEPT !.output = machine.output]
    ELSE Success(machine.output)

\* what compileAndRun returns after vm.execute returned
Outcome(machine) ==
    IF machine.error # "" THEN Failure(machine.error)
    ELSE Success(machine.output)

InputLines == {"", "7"}

(***************************************************************************)
(* The programs run: source texts in a language.                           *)
(***************************************************************************)
Source(lang, text) == [language |-> lang, code |-> text]

\* the programs the specification names
Scenarios ==
    { "var x = 10; var y = 20; print(x + y);",
      "var s = \"hi\"; print(s + \" \" + 3);",
      "var n = 3; var f = 1; while (n > 1) { f = f * n; n = n - 1; } print(f);",
      "function fact(n) { if (n <= 1) { return 1; } else { return n * fact(n - 1); } } print(fact(5));",
      "if (1 < 2) { print(\"a\"); } else { print(\"b\"); } print(\"c\");",
      "var x = 1; var x = x + 1; print(x);",
      "print(1/0);",
      "print(1%0);",
      "print(y);",
      "var = 1;",
      "function f() { print(\"x\"); } print(\"y\");",
      "var x = 10;",
      "print();",
      "var x = 2; while (x >= 0) { print(6 / x); x = x - 1; }",
      "var x = 1; print(x); print(x / 0);",
      "while (true) 1;",
      "var x = 2; function f(a) { for (var i = 0; i < x; i = i + 1) { if (i) { while (a) a = a - 1; } else print(i); } } print(x);",
      "x = 1;\nvar\n  2;",
      "  ",
      "// nothing",
      "x = @ \"a\\",
      "print('abc",
      "var = 1; var 2;",
      "print(1; var y = 2; print(2;",
      "x = (1 + ; y = ); z",
      "x = 1 + * 2 function () { }",
      "if (x { y = 1 } while",
      "x = 1; y = 2 z = 3",
      "x = 1; y = x @ 2;",
      "var a = 1; print(a) #",
      "function f(a, $) { return a; }",
      "if (x) { x = 2; } ? else x = 3;",
      "@",
      "print(\"a\nb\");",
      "var s = 'a\\nb';\nprint(s);" }

\* expressions over x and y
Expressions == { "1", "x", "y", "x - 1", "2 / x", "3 % x", "-x", "f(x)" }

\* statements without a statement inside
Simple ==
    { "var x = " \o e \o ";" : e \in Expressions }
    \cup { "x = " \o e \o ";" : e \in Expressions }
    \cup { "print(" \o e \o ");" : e \in Expressions }
    \cup { "var x;", "var y = 0;", "var 1 = x;", "var (x);", "return x;",
           "y = x = 0;", "print(x, y);", "x + 1;" }

\* a statement around the statement s
Compound(s) ==
    { "if (x) " \o s,
      "if (x < 1) { " \o s \o " } else { " \o s \o " }",
      "while (x) { x = x - 1; " \o s \o " }",
      "for (var i = 0; i < 2; i = i + 1) " \o s,
      "function f(a) { " \o s \o " }",
      "{ " \o s \o " var x = 0; }" }

Inner == { "x = x - 1;", "var x = 2 / x;", "print(y);", "var = x;" }

Family ==
    Simple
    \cup { "var x = " \o k \o "; " \o s : k \in {"0", "1"}, s \in Simple }
    \cup UNION { Compound(s) : s \in Simple }
    \cup { "var x = 1; " \o c : c \in UNION { Compound(s) : s \in Simple } }
    \cup { "var x = 1; " \o c :
             c \in UNION { Compound(d) : d \in UNION { Compound(s) : s \in Inner } } }

\* the words from the i-th on, separated by spaces
RECURSIVE Spaced(_, _)
Spaced(words, i) ==
    IF i > Len(words) THEN ""
    ELSE IF i = Len(words) THEN words[i]
    ELSE words[i] \o " " \o Spaced(words, i + 1)

\* the twelve spellings of a language, and lexemes that contain a spelling
\* without being one
KeywordText(spelt) ==
    Spaced(spelt.keywords, 1) \o " " \o spelt.keywords[1] \o "1 _"
        \o spelt.keywords[7] \o " IF " \o spelt.keywords[8] \o spelt.keywords[9]
        \o " (" \o spelt.keywords[10] \o ")"

\* every language's spellings read by the lexer of every language
KeywordSources ==
    { Source(LANGUAGES[i], KeywordText(LANGUAGES[j])) :
        i \in DOMAIN LANGUAGES, j \in DOMAIN LANGUAGES }

\* the binary and the unary operators of the language
BinaryOperators ==
    { "||", "&&", "==", "!=", "<", ">", "<=", ">=", "+", "-", "*", "/", "%" }

UnaryOperators == { "!", "-" }

\* an assignment of two binary operators in a row, and one of a binary
\* operator between unary operands
TwoOperators(first, second) ==
    "r = a " \o first \o " b " \o second \o " c;"

UnaryOperands(sign, binaryOperator) ==
    "r = " \o sign \o "a " \o binaryOperator \o " " \o sign \o "b;"

Precedence ==
    { TwoOperators(first, second) :
        first \in BinaryOperators, second \in BinaryOperators }
    \cup { UnaryOperands(sign, binaryOperator) :
             sign \in UnaryOperators, binaryOperator \in BinaryOperators }
    \cup { "r = !!x;", "r = -!-x;", "r = a - b - c - d;",
           "r = a || b && c == d < e + f * -g;",
           "r = -g * f + e < d == c && b || a;" }

\* expressions that do not parse to an Identifier node, and expressions in
\* parentheses that do
Targets ==
    { "1", "a + b", "\"s\"", "f()", "f(a)", "-a", "!a", "(1)", "(a + b)",
      "true", "null", "a == b", "a || b", "a = 1" }

Values == { "2", "3", "b", "c = 3", "f(1) * 2" }

Assigned(target, value) == target \o " = " \o value \o ";"

Assignments ==
    { Assigned(target, value) : target \in Targets, value \in Values }
    \cup { "var x = " \o Assigned(target, "2") : target \in Targets }
    \cup { "print(" \o target \o " = 2);" : target \in Targets }
    \cup { "a = " \o Assigned(target, "2") : target \in Targets }
    \cup { "(a) = 3;", "((a)) = b = 4;", "1 = ;", "a + b = = 3;" }

\* literals: the text, the line print writes for the value, and whether the
\* value is one of false, null, 0 and the empty string
Operand(text, shown, falsy) == [text |-> text, shown |-> shown, falsy |-> falsy]

Operands ==
    { Operand("0", "0", TRUE), Operand("2", "2", FALSE),
      Operand("\"\"", "", TRUE), Operand("\"t\"", "t", FALSE),
      Operand("true", "true", FALSE), Operand("false", "false", TRUE),
      Operand("null", "null", TRUE) }

\* a logical operator whose right operand assigns to x
Logical(a, operator, b) ==
    "var x = 1; var r = " \o a.text \o " " \o operator \o " (x = " \o b.text
        \o "); print(x); print(r);"

Logicals ==
    { Logical(a, operator, b) :
        a \in Operands, operator \in {"&&", "||"}, b \in Operands }
    \cup { "var x = 1; var r = (x = 2) && (x = 3); print(x, r);",
           "var x = 1; var r = (x = 0) || (x = 3); print(x, r);" }

\* an if statement on the value of an expression
Condition(text) ==
    "if (" \o text \o ") print(\"then\"); else print(\"else\");"

Conditions ==
    { Condition(operand.text) : operand \in Operands }
    \cup { Condition(text) :
             text \in { "1 % 0", "\"a\" * 2", "2 - 2", "-0", "0.0", "0.5",
                        "\"0\"", "\" \"", "-1", "!0", "1 / 3" } }
    \cup { "if (0) { function f(a) { } } " \o Condition("f"),
           "var n = 3; while (n % 2) n = n - 1; print(n);" }

\* programs with a declaration in a branch that is not taken
Skipped ==
    { "if (false) { var a = 1; } print(a);",
      "if (false) { var a = 1; } var b = 2; print(b);",
      "if (false) { var a = 1; } var b = 2; print(a, b);",
      "if (false) { var a = 1; var b = 2; } var c = 3; print(a, b, c); a = c; print(a);",
      "var a = 1; if (a > 1) { var b = 2; } else { var c = 3; } print(c); print(b);",
      "var a = 0; while (a) { var b = 1; } print(a); print(b);" }

\* a = b = v; for a value v, and the value v is
Chain(text, value) == [text |-> text, value |-> value]

Chains ==
    { Chain("2", Num(2)), Chain("\"s\"", Str("s")), Chain("1 + 2", Num(3)),
      Chain("null", Null), Chain("true", Bool(TRUE)), Chain("-1 / 2", Rat(-1, 2)) }

Chained(chain) == "a = b = " \o chain.text \o "; print(a, b);"

\* a while loop from n down to 0 that counts in e the evaluations of its
\* condition and in c the runs of its body
Counting(n) ==
    "var n = " \o NatToString(n) \o "; var e = 0; var c = 0; "
        \o "while ((e = e + 1) && n > 0) { c = c + 1; n = n - 1; } print(e, c);"

\* the largest n of Counting
MaxCount == 3

FactorialLoop ==
    "var n = 5; var f = 1; while (n > 1) { f = f * n; n = n - 1; } print(f);"

Whiles == { Counting(n) : n \in 0 .. MaxCount } \cup { FactorialLoop }

\* programs that declare functions
Functions ==
    { "function f(a, b, c) { return a; }",
      "function f() { } function f(a) { } print(1);",
      "function g(a, b) { if (a) { return b; } }",
      "function g(a, b) { while (a) { a = a - 1; } }",
      "function h(a) { function k(b, c) { return c; } return a; } var x = 1;",
      "var a = 1; function f(a, b) { } var c = 2; print(a, b, c);",
      "function f(a, a) { print(a); }" }

\* programs that declare a name again
Redeclared ==
    { "var x = 1; var x = 2; var y = 3; print(x);",
      "var x = 1; var x = 2; y = 3; print(x, y);",
      "var a = 1; function f(a) { } var b = 2;" }

\* the most arguments of a call of print in Builtins
MaxArgs == 3

\* the literals 1 to n, separated by commas
RECURSIVE Literals(_)
Literals(n) ==
    IF n = 0 THEN ""
    ELSE IF n = 1 THEN "1"
    ELSE Literals(n - 1) \o ", " \o NatToString(n)

\* a call of the language's print with n arguments, and a call of its input
PrintCall(spelt, n) == spelt.keywords[11] \o "(" \o Literals(n) \o ");"

InputCall(spelt) ==
    "a = " \o spelt.keywords[12] \o "(); " \o spelt.keywords[11] \o "(a);"

Builtins ==
    { Source(LANGUAGES[i], PrintCall(LANGUAGES[i], n)) :
        i \in DOMAIN LANGUAGES, n \in 0 .. MaxArgs }
    \cup { Source(LANGUAGES[i], InputCall(LANGUAGES[i])) : i \in DOMAIN LANGUAGES }

Programs ==
    { Source(English, text) :
        text \in Scenarios \cup Family \cup Precedence \cup Assignments
                 \cup Logicals \cup Conditions \cup Skipped
                 \cup { Chained(chain) : chain \in Chains } \cup Whiles
                 \cup Functions \cup Redeclared }
    \cup Builtins
    \cup { Source(Tamil, "maari a = ulle(); achchidu(a, 1 / 2);") }
    \cup KeywordSources

Init ==
    /\ stage = "lex"
    /\ \E program \in Programs : language = program.language /\ code = program.code
    /\ tokens = << >>
    /\ parsed = Parsed(NoNode, 0)
    /\ generator = NewGenerator
    /\ vm = StartVm(NewGenerator)
    /\ result = NoResult
    /\ steps = 0
    /\ runs = << >>
    /\ lookup = NoLookup
    /\ app = NewApp

\* if (!code.trim()) return ...; tokens = lexer.tokenize()
Lex ==
    /\ stage = "lex"
    /\ IF TrimRight(TrimLeft(code)) = ""
       THEN /\ result' = Failure(language.syntaxError)
            /\ stage' = "done"
            /\ UNCHANGED tokens
       ELSE /\ tokens' = Tokenize(code, language)
            /\ stage' = "parse"
            /\ UNCHANGED result
    /\ UNCHANGED << language, code, parsed, generator, vm, steps, runs, lookup, app >>

\* ast = parser.parse(), and the catch of a ParseError
Parse ==
    /\ stage = "parse"
    /\ parsed' = parse(tokens)
    /\ IF parsed'.error.thrown
       THEN /\ result' = Failure(language.syntaxError \o ": "
                                  \o parsed'.error.message \o " at line "
                                  \o NumberToString(Num(parsed'.error.token.line)))
            /\ stage' = "done"
       ELSE /\ stage' = "generate"
            /\ UNCHANGED result
    /\ UNCHANGED << language, code, tokens, generator, vm, steps, runs, lookup, app >>

\* bytecode = generator.generate(ast), the catch of its Error, and the
\* start of vm.execute(bytecode)
Generate ==
    /\ stage = "generate"
    /\ generator' = generate(parsed.node)
    /\ IF generator'.thrown
       THEN /\ result' = Failure(generator'.message)
            /\ stage' = "done"
            /\ UNCHANGED vm
       ELSE /\ vm' = StartVm(generator')
            /\ stage' = "execute"
            /\ UNCHANGED result
    /\ UNCHANGED << language, code, tokens, parsed, steps, runs, lookup, app >>

\* one iteration of the loop of vm.execute
Execute ==
    /\ stage = "execute"
    /\ Running(vm)
    /\ steps < MaxSteps
    /\ \E line \in IF vm.instructions[vm.pc + 1].opcode = "INPUT"
                    THEN InputLines ELSE {""} :
           vm' = LoopStep(vm, line)
    /\ steps' = steps + 1
    /\ UNCHANGED << stage, language, code, tokens, parsed, generator, result,
                    runs, lookup, app >>

\* the return of vm.execute (the loop ended, or the catch) and of
\* compileAndRun
Return ==
    /\ stage = "execute"
    /\ ~Running(vm)
    /\ result' = Outcome(vm)
    /\ stage' = "done"
    /\ runs' = Append(runs, [output |-> vm.output, error |-> vm.error])
    /\ UNCHANGED << language, code, tokens, parsed, generator, vm, steps, lookup, app >>

Next == Lex \/ Parse \/ Generate \/ Execute \/ Return

Spec == Init /\ [][Next]_vars

\* the calls of execute modelled on one VirtualMachine
MaxRuns == 3

\* vm.execute(bytecode) called again, on the same VirtualMachine and with
\* the same bytecode, after it has returned
Rerun ==
    /\ stage = "done"
    /\ Len(runs) >= 1
    /\ Len(runs) < MaxRuns
    /\ vm' = Restart(vm, generator)
    /\ stage' = "execute"
    /\ steps' = 0
    /\ UNCHANGED << language, code, tokens, parsed, generator, result, runs, lookup, app >>

RerunNext == Next \/ Rerun

\* compileAndRun, and then execute again on its VirtualMachine
RerunSpec == Init /\ [][RerunNext]_vars

\* the most instructions of a bytecode given to execute directly
MaxLength == 4

\* the instructions such a bytecode is made of
Alphabet ==
    { Instruction("LOAD_CONST", 0, currentLine),
      Instruction("PRINT", 1, currentLine),
      Instruction("POP", NoOperand, currentLine),
      Instruction("HALT", NoOperand, currentLine) }

\* bytecode: { instructions, constants }, not made by the generator
Bytecodes ==
    { [NewGenerator EXCEPT !.instructions = instructions,
                           !.constants = << Num(1) >>] :
        instructions \in UNION { [1 .. n -> Alphabet] : n \in 1 .. MaxLength } }

\* new VirtualMachine().execute(bytecode) entered, for any bytecode
BytecodeInit ==
    /\ stage = "execute"
    /\ language = English
    /\ code = ""
    /\ tokens = << >>
    /\ parsed = Parsed(NoNode, 0)
    /\ generator \in Bytecodes
    /\ vm = StartVm(generator)
    /\ result = NoResult
    /\ steps = 0
    /\ runs = << >>
    /\ lookup = NoLookup
    /\ app = NewApp

BytecodeNext == Execute \/ Return

\* vm.execute on bytecode of any shape
BytecodeSpec == BytecodeInit /\ [][BytecodeNext]_vars

\* the names languages are asked for by: the codes and the property names
\* of the entries, and names of no entry
Names ==
    { LANGUAGES[i].code : i \in DOMAIN LANGUAGES }
    \cup { LANGUAGES[i].key : i \in DOMAIN LANGUAGES }
    \cup { "", "xx", "EN", "English", "e" }

\* the calls made: getLanguageByCode of each name, and getKeywordTranslation
\* of each spelling of each entry into each entry
Lookups ==
    { Lookup("getLanguageByCode", name, "", "", "") : name \in Names }
    \cup { Lookup("getKeywordTranslation", "", LANGUAGES[i].keywords[k],
                  LANGUAGES[i].key, LANGUAGES[j].key) :
             i \in DOMAIN LANGUAGES, j \in DOMAIN LANGUAGES,
             k \in DOMAIN KeywordNames }

\* the editor idle, a function of language/definitions about to be called
TableInit ==
    /\ stage = "lex"
    /\ language = English
    /\ code = ""
    /\ tokens = << >>
    /\ parsed = Parsed(NoNode, 0)
    /\ generator = NewGenerator
    /\ vm = StartVm(NewGenerator)
    /\ result = NoResult
    /\ steps = 0
    /\ runs = << >>
    /\ lookup \in Lookups
    /\ app = NewApp

GetLanguageByCode ==
    /\ lookup.function = "getLanguageByCode"
    /\ lookup.done = 0
    /\ lookup' = [lookup EXCEPT !.done = 1,
                                !.entry = getLanguageByCode(lookup.code)]
    /\ UNCHANGED << pipeline, app >>

\* getKeywordTranslation(keyword, fromLang, toLang)
Translate ==
    /\ lookup.function = "getKeywordTranslation"
    /\ lookup.done = 0
    /\ lookup' = [lookup EXCEPT
                    !.done = 1,
                    !.translated = getKeywordTranslation(lookup.keyword,
                                       lookup.fromLang, lookup.toLang)]
    /\ UNCHANGED << pipeline, app >>

\* getKeywordTranslation of what Translate returned, back into fromLang
TranslateBack ==
    /\ lookup.function = "getKeywordTranslation"
    /\ lookup.done = 1
    /\ lookup' = [lookup EXCEPT
                    !.done = 2,
                    !.back = getKeywordTranslation(lookup.translated,
                                 lookup.toLang, lookup.fromLang)]
    /\ UNCHANGED << pipeline, app >>

TableNext == GetLanguageByCode \/ Translate \/ TranslateBack

\* the functions of language/definitions, called on their own
TableSpec == TableInit /\ [][TableNext]_vars

(***************************************************************************)
(* The App component: its handlers, called between compilations.  stage is *)
(* "idle" while no compilation runs.                                       *)
(***************************************************************************)
\* language.keywords[name]
KeywordOf(spelt, name) ==
    spelt.keywords[CHOOSE k \in DOMAIN KeywordNames : KeywordNames[k] = name]

\* currentLanguage: the entry whose code is selectedLanguage, or English
CurrentLanguage(selectedLanguage) ==
    IF \E i \in DOMAIN LANGUAGES : LANGUAGES[i].code = selectedLanguage
    THEN LANGUAGES[CHOOSE i \in DOMAIN LANGUAGES :
                       LANGUAGES[i].code = selectedLanguage]
    ELSE Entry("english")

\* getExampleCode(language)
getExampleCode(spelt) ==
    LET var == KeywordOf(spelt, "var")
        print == KeywordOf(spelt, "print")
    IN  var \o " x = 10;\n" \o var \o " y = 20;\n" \o var \o " sum = x + y;\n"
            \o print \o "(sum);\n\n"
            \o KeywordOf(spelt, "if") \o " (sum > 25) {\n    "
            \o print \o "(\"Sum is greater than 25\");\n} "
            \o KeywordOf(spelt, "else") \o " {\n    "
            \o print \o "(\"Sum is 25 or less\");\n}"

\* App as it is first rendered
AppInit ==
    /\ stage = "idle"
    /\ language = CurrentLanguage(NewApp.selectedLanguage)
    /\ code = ""
    /\ tokens = << >>
    /\ parsed = Parsed(NoNode, 0)
    /\ generator = NewGenerator
    /\ vm = StartVm(NewGenerator)
    /\ result = NoResult
    /\ steps = 0
    /\ runs = << >>
    /\ lookup = NoLookup
    /\ app = NewApp

\* the language selector's button: setShowLanguageDropdown(!showLanguageDropdown)
ToggleLanguageDropdown ==
    /\ stage = "idle"
    /\ app' = [app EXCEPT !.showLanguageDropdown = ~@]
    /\ UNCHANGED << pipeline, lookup >>

\* handleLanguageChange(langCode)
HandleLanguageChangeTo(langCode) ==
    LET newLanguage == IF Entry(langCode) # NoLanguage THEN Entry(langCode)
                       ELSE Entry("english")
    IN  /\ stage = "idle"
        /\ app' = [app EXCEPT !.selectedLanguage = langCode,
                              !.showLanguageDropdown = FALSE,
                              !.error = "",
                              !.output = << >>,
                              !.codeDescription = NoDescription]
        /\ code' = getExampleCode(newLanguage)
        /\ language' = CurrentLanguage(langCode)
        /\ UNCHANGED << stage, tokens, parsed, generator, vm, result, steps, runs,
                        lookup >>

\* a click on an entry of the open dropdown, one per language of
\* getAllLanguages(): handleLanguageChange(lang.code)
HandleLanguageChange ==
    /\ app.showLanguageDropdown
    /\ \E i \in DOMAIN getAllLanguages :
           HandleLanguageChangeTo(getAllLanguages[i].code)

\* handleCompile, up to its call of compileAndRun
HandleCompile ==
    /\ stage = "idle"
    /\ app' = [app EXCEPT !.isCompiling = TRUE, !.error = "", !.output = << >>]
    /\ stage' = "lex"
    /\ tokens' = << >>
    /\ parsed' = Parsed(NoNode, 0)
    /\ generator' = NewGenerator
    /\ vm' = StartVm(NewGenerator)
    /\ result' = NoResult
    /\ steps' = 0
    /\ runs' = << >>
    /\ UNCHANGED << language, code, lookup >>

\* handleCompile, after compileAndRun returned
ShowResult ==
    /\ stage = "done"
    /\ app' = IF result.success
              THEN [app EXCEPT !.output = result.output, !.isCompiling = FALSE]
              ELSE [app EXCEPT !.error = IF result.error # "" THEN result.error
                                         ELSE "Unknown error",
                               !.isCompiling = FALSE]
    /\ stage' = "idle"
    /\ UNCHANGED << language, code, tokens, parsed, generator, vm, result, steps,
                    runs, lookup >>

\* handleDescribeCode
HandleDescribeCode ==
    /\ stage = "idle"
    /\ app' = [app EXCEPT !.codeDescription =
                  Description(TrimRight(TrimLeft(code)), language)]
    /\ UNCHANGED << pipeline, lookup >>

\* handleClear
HandleClear ==
    /\ stage = "idle"
    /\ code' = ""
    /\ app' = [app EXCEPT !.output = << >>, !.error = "",
                          !.codeDescription = NoDescription]
    /\ UNCHANGED << stage, language, tokens, parsed, generator, vm, result, steps,
                    runs, lookup >>

AppNext ==
    \/ ToggleLanguageDropdown
    \/ HandleLanguageChange
    \/ HandleCompile
    \/ Lex
    \/ Parse
    \/ Generate
    \/ Execute
    \/ Return
    \/ ShowResult
    \/ HandleDescribeCode
    \/ HandleClear

\* the App component: its handlers, and compileAndRun within handleCompile
AppSpec == AppInit /\ [][AppNext]_vars

(***************************************************************************)
(* Properties of compilation and execution.                                *)
(***************************************************************************)
\* the instruction the loop of execute runs next
CurrentInstruction == vm.instructions[vm.pc + 1]

\* the VM is about to run an instruction with this opcode
About(opcode) ==
    stage = "execute" /\ Running(vm) /\ CurrentInstruction.opcode = opcode

\* parsing and generation both returned
Compiled ==
    \/ stage = "execute"
    \/ /\ stage = "done"
       /\ parsed.node # NoNode
       /\ ~parsed.error.thrown
       /\ ~generator.thrown

\* pc addresses an instruction of a function body
InBody(pc) ==
    \E body \in generator.bodies : body.first <= pc /\ pc <= body.last

HasOpcode(instructions, opcodes) ==
    \E i \in DOMAIN instructions : instructions[i].opcode \in opcodes

FactProgram ==
    "function fact(n) { if (n <= 1) { return 1; } else { return n * fact(n - 1); } } print(fact(5));"

UncalledProgram == "function f() { print(\"x\"); } print(\"y\");"

\* C1: a program that declares a function and calls it runs to completion
\* without a runtime error, the call yielding the body's return value: no
\* run ends on the CALL instruction, and the factorial program returns the
\* output lines ["120"] and no error.
C1_CallReturnsValue ==
    stage = "done" =>
        /\ result.error # "Unknown opcode: CALL"
        /\ code = FactProgram => result = Success(<< "120" >>)

\* C2: an instruction of a function body is run only as the result of a
\* CALL: the VM is never about to run a body instruction of a program that
\* holds no CALL, and the program with the uncalled function returns the
\* output lines ["y"] and no error.
C2_BodyRunsOnlyWhenCalled ==
    /\ (stage = "execute" /\ Running(vm) /\ InBody(vm.pc))
          => HasOpcode(vm.instructions, {"CALL"})
    /\ (stage = "done" /\ code = UncalledProgram) => result = Success(<< "y" >>)

\* C3: when the VM reaches the final HALT of a compiled program, every
\* statement complete, the operand stack is empty.
C3_StackEmptyAtHalt == About("HALT") => vm.stack = << >>

JumpOpCodes == {"JUMP", "JUMP_IF_FALSE", "JUMP_IF_TRUE"}

C5_RedeclarationAliases ==
    \A i \in DOMAIN generator.declared :
        generator.declared[i].had # -1 =>
            generator.declared[i].index = generator.declared[i].had

\* the step is an iteration of execute's loop on an instruction with this
\* opcode whose right operand, the top of the stack, is the number 0
ZeroRightOperand(opcode) ==
    /\ About(opcode)
    /\ PopValue(vm.stack) = Num(0)
    /\ steps' = steps + 1

\* the step ends execution with a division by zero, both operands popped
\* and nothing pushed
EndsInDivisionByZero ==
    /\ vm'.error = "Division by zero"
    /\ ~Running(vm')
    /\ vm'.stack = PopRest(PopRest(vm.stack))
    /\ vm'.output = vm.output

\* C6: DIVIDE with the number 0 as right operand ends execution with the
\* division-by-zero error and pushes nothing; no instruction runs after the
\* error, compileAndRun returns the error, and print(1/0); leaves an empty
\* output list.
C6_DivideByZero ==
    /\ [][ZeroRightOperand("DIVIDE") => EndsInDivisionByZero]_vars
    /\ [][vm.error # "" => vm' = vm]_vars
    /\ [](stage = "done" /\ vm.error = "Division by zero"
             => result = Failure("Division by zero"))
    /\ [](stage = "done" /\ code = "print(1/0);"
             => vm.error = "Division by zero" /\ vm.output = << >>)

\* a division by zero after a line was printed, returned as the error
C6_DividedByZero ==
    /\ stage = "done"
    /\ vm.error = "Division by zero"
    /\ vm.output # << >>
    /\ result = Failure("Division by zero")

\* C7: MODULO with the number 0 as right operand ends execution with the
\* division-by-zero error, as DIVIDE does, and pushes nothing.
C7_ModuloByZero == [][ZeroRightOperand("MODULO") => EndsInDivisionByZero]_vars

\* the number of values an instruction pops
Pops(instruction) ==
    CASE instruction.opcode \in {"POP", "STORE_VAR", "NEGATE", "NOT",
                                 "JUMP_IF_FALSE", "JUMP_IF_TRUE"} -> 1
      [] instruction.opcode \in BinaryOpCodes -> 2
      [] instruction.opcode = "PRINT" ->
            (IF instruction.operand \in {0, NoOperand} THEN 1
             ELSE instruction.operand)
      [] OTHER -> 0

\* C8: an instruction run with fewer values on the stack than it pops ends
\* execution with a stack-underflow error.
C8_StackUnderflow ==
    [][(/\ stage = "execute"
        /\ Running(vm)
        /\ steps' = steps + 1
        /\ Pops(CurrentInstruction) > Len(vm.stack))
           => vm'.error = "Stack underflow"]_vars

\* the Identifier names compiled by visitIdentifier in the tree of node:
\* all but the callee of a built-in call and the arguments of input
RECURSIVE Referenced(_)
Referenced(node) ==
    IF node = NoNode THEN {}
    ELSE IF node.kind = "Identifier" THEN {node.name}
    ELSE IF /\ node.kind = "CallExpression"
            /\ node.children[1].kind = "Identifier"
            /\ node.children[1].name \in {"print", "achchidu"}
    THEN UNION { Referenced(node.children[i]) : i \in 2 .. Len(node.children) }
    ELSE IF /\ node.kind = "CallExpression"
            /\ node.children[1].kind = "Identifier"
            /\ node.children[1].name \in {"input", "ulle"}
    THEN {}
    ELSE UNION { Referenced(node.children[i]) : i \in DOMAIN node.children }

\* the names some declaration, parameter, assignment or function
\* declaration in the tree of node puts in a table of the generator
RECURSIVE Bound(_)
Bound(node) ==
    IF node = NoNode THEN {}
    ELSE (IF node.kind \in {"VarDeclaration", "AssignmentExpression",
                            "FunctionDeclaration"}
          THEN {node.name} ELSE {})
         \cup { node.parameters[i] : i \in DOMAIN node.parameters }
         \cup UNION { Bound(node.children[i]) : i \in DOMAIN node.children }

VarWithoutName(ts, k) == ts[k].type = "VAR" /\ ts[k + 1].type # "IDENTIFIER"

\* C10: when the token after VAR is not an IDENTIFIER, parsing fails with a
\* ParseError carrying that token: a token list with such a VAR never
\* parses, an "Expected variable name" error carries the token after the
\* first such VAR, and var = 1; fails with the ASSIGN token of line 1,
\* column 5.
C10_ErrorCarriesOffendingToken ==
    (stage \in {"generate", "execute", "done"} /\ tokens # << >>) =>
        LET ts == WithoutNewlines(tokens)
            bad == {k \in 1 .. (Len(ts) - 1) : VarWithoutName(ts, k)}
        IN  /\ bad # {} => parsed.error.thrown
            /\ (parsed.error.thrown
                    /\ parsed.error.message = "Expected variable name") =>
                  /\ bad # {}
                  /\ \E k \in bad :
                        /\ \A j \in bad : k <= j
                        /\ parsed.error.token = ts[k + 1]
            /\ (bad # {} /\ 1 \in bad) =>
                  parsed.error = ParseError("Expected variable name", ts[2])
            /\ code = "var = 1;" =>
                  /\ parsed.error.token = Token("ASSIGN", "=", 1, 5)
                  /\ result = Failure("Syntax Error: Expected variable name at line 1")

\* a declaration without a name was refused on a later line, after a
\* statement that parsed
C10_OffendingTokenCarried ==
    /\ stage = "done"
    /\ parsed.error.thrown
    /\ parsed.error.message = "Expected variable name"
    /\ parsed.error.token.type = "NUMBER"
    /\ parsed.error.token.line = 3
    /\ parsed.current > 2

\* C11: execute terminates for every compiled program, a loop that never
\* ends being stopped with "Execution limit exceeded": the VM, which is
\* deterministic without INPUT, never comes back to the configuration it
\* started from after running instructions, and so never runs forever.
C11_ExecutionIsBounded ==
    (stage = "execute" /\ steps > 0 /\ ~HasOpcode(vm.instructions, {"INPUT"}))
        => vm # StartVm(generator)

\* C12: the constant pool holds no two equal values, every request to
\* addConstant returns the index of a pool entry equal to the value asked
\* for, and requests for equal values return the same index.
C12_ConstantPoolDeduplicated ==
    LET constants == generator.constants
        requested == generator.requested
    IN  /\ \A i, j \in DOMAIN constants : constants[i] = constants[j] => i = j
        /\ \A r \in DOMAIN requested :
              /\ requested[r].index \in 0 .. (Len(constants) - 1)
              /\ constants[requested[r].index + 1] = requested[r].value
        /\ \A r, q \in DOMAIN requested :
              requested[r].value = requested[q].value
                  => requested[r].index = requested[q].index

\* a value was requested a second time after other constants joined the pool
C12_ConstantRequestedTwice ==
    /\ Compiled
    /\ Len(generator.constants) >= 3
    /\ \E r, q \in DOMAIN generator.requested :
          /\ r + 1 < q
          /\ generator.requested[r].value = generator.requested[q].value
          /\ generator.requested[r].index = 0
          /\ generator.requested[q - 1].index = 2

\* the token types of the ten canonical keywords, in the order of the tables
CanonicalTypes ==
    << "IF", "ELSE", "WHILE", "FOR", "FUNCTION", "RETURN", "VAR", "TRUE",
       "FALSE", "NULL" >>

\* the type the language gives an identifier-class lexeme
ExpectedType(lang, lexeme) ==
    IF \E i \in DOMAIN CanonicalTypes : lang.keywords[i] = lexeme
    THEN CanonicalTypes[CHOOSE i \in DOMAIN CanonicalTypes :
                            lang.keywords[i] = lexeme]
    ELSE "IDENTIFIER"

IdentifierClass(type) ==
    type = "IDENTIFIER" \/ \E i \in DOMAIN CanonicalTypes : CanonicalTypes[i] = type

\* C13: in every language, an identifier-class lexeme that is the language's
\* spelling of one of the ten canonical keywords is the keyword's token, any
\* other identifier-class lexeme (the spellings of print and input too) is
\* an IDENTIFIER, and the lexeme of such a token is maximal: it is the text
\* at the token's position and no identifier character follows it.
C13_KeywordsOfTheLanguage ==
    \A k \in DOMAIN tokens :
        IdentifierClass(tokens[k].type) =>
            /\ tokens[k].type = ExpectedType(language, tokens[k].value)
            /\ tokens[k].line = 1 =>
                  /\ SubSeq(code, tokens[k].column,
                            tokens[k].column + Len(tokens[k].value) - 1)
                         = tokens[k].value
                  /\ tokens[k].column + Len(tokens[k].value) <= Len(code) =>
                        ~IsIdentifierChar(CharAt(code,
                            tokens[k].column + Len(tokens[k].value)))

\* the Tamil lexer read the Tamil spellings and the lexemes around them
C13_KeywordsRead ==
    /\ language = Tamil
    /\ \E k \in DOMAIN tokens : tokens[k].value = "achchidu"
                                   /\ tokens[k].type = "IDENTIFIER"
    /\ \E k \in DOMAIN tokens : tokens[k].value = "ondrum_illai"
                                   /\ tokens[k].type = "NULL"
    /\ \E k \in DOMAIN tokens : tokens[k].value = "yenil1"
    /\ \E k \in DOMAIN tokens : tokens[k].value = "unmaipoi"

\* C14: tokenize returns, for every source text, a sequence that ends with
\* the EOF token and holds no other EOF token; advance consumes a character
\* wherever one is left, and an iteration of the loop of tokenize, past the
\* white space, consumes at least one character.
C14_TokenizeEndsWithOneEOF ==
    /\ LET returned == Tokenize(code, language)
       IN  /\ Len(returned) >= 1
           /\ returned[Len(returned)].type = "EOF"
           /\ \A k \in 1 .. (Len(returned) - 1) : returned[k].type # "EOF"
           /\ tokens # << >> => tokens = returned
    /\ \A p \in 0 .. (Len(code) - 1) :
          LET lx == LexState(p, 1, 1)
              l1 == SkipWhitespace(code, lx)
          IN  /\ LexAdvance(code, lx).position = p + 1
              /\ l1.position >= p
              /\ l1.position < Len(code) =>
                    ScanToken(code, l1, language).lx.position > l1.position

\* a text with an unrecognised character and an unterminated string that
\* ends in a backslash was tokenized
C14_UnterminatedStringRead ==
    /\ stage # "lex"
    /\ CharAt(code, Len(code)) = "\\"
    /\ Len(tokens) >= 3
    /\ tokens[Len(tokens) - 1].type = "STRING"
    /\ tokens[Len(tokens) - 1].value = "a"
    /\ \E k \in DOMAIN tokens : tokens[k].type = "UNKNOWN"

\* the 1-based index in the source of the first character of a line, 0 when
\* the source has no such line
LineStart(source, line) ==
    IF line = 1 THEN 1
    ELSE LET ends == { p \in 1 .. Len(source) :
                         /\ CharAt(source, p) = "\n"
                         /\ Cardinality({ q \in 1 .. p : CharAt(source, q) = "\n" })
                                = line - 1 }
         IN  IF ends = {} THEN 0 ELSE (CHOOSE p \in ends : TRUE) + 1

\* the 1-based index in the source of the character at a line and column,
\* 0 when the line has no such column
IndexAt(source, line, column) ==
    LET start == LineStart(source, line)
    IN  IF /\ start > 0
           /\ column >= 1
           /\ start + column - 1 <= Len(source) + 1
           /\ \A p \in start .. (start + column - 2) : CharAt(source, p) # "\n"
        THEN start + column - 1 ELSE 0

\* the token's line and column are those of the first character of its text
AtFirstCharacter(source, token) ==
    LET at == IndexAt(source, token.line, token.column)
    IN  /\ at > 0
        /\ CASE token.type = "EOF" -> at = Len(source) + 1
             [] token.type = "STRING" ->
                  at <= Len(source) /\ CharAt(source, at) \in {"\"", "'"}
             [] OTHER ->
                  SubSeq(source, at, at + Len(token.value) - 1) = token.value

\* C15: every token reports the line and column of its first character, a
\* STRING token with a newline inside its literal too, and the tokens come
\* in reading order.
C15_TokenAtFirstCharacter ==
    /\ \A k \in DOMAIN tokens : AtFirstCharacter(code, tokens[k])
    /\ \A k \in 1 .. (Len(tokens) - 1) :
          IndexAt(code, tokens[k].line, tokens[k].column)
              < IndexAt(code, tokens[k + 1].line, tokens[k + 1].column)

\* the names the dispatcher Rule knows
RuleNames ==
    { "declaration", "varDeclaration", "functionDeclaration", "statement",
      "ifStatement", "whileStatement", "forStatement", "returnStatement",
      "blockStatement", "expressionStatement", "expression", "assignment",
      "or", "and", "equality", "comparison", "term", "factor", "unary",
      "call", "primary" }

\* the value of current when parse catches its first error (the number of
\* tokens the rules have consumed), -1 when no rule throws
RECURSIVE ThrownAt(_, _)
ThrownAt(ts, cur) ==
    IF IsAtEnd(ts, cur) THEN -1
    ELSE LET stmt == Rule("declaration", ts, cur)
         IN  IF stmt.error.thrown THEN stmt.current
             ELSE ThrownAt(ts, stmt.current)

\* the positions of the UNKNOWN tokens the parser is given
Unknowns(ts) == { k \in DOMAIN ts : ts[k].type = "UNKNOWN" }

Level(operator) ==
    CASE operator = "||" -> 1
      [] operator = "&&" -> 2
      [] operator \in {"==", "!="} -> 3
      [] operator \in {"<", ">", "<=", ">="} -> 4
      [] operator \in {"+", "-"} -> 5
      [] operator \in {"*", "/", "%"} -> 6

\* the program of the one statement r = value;
AssignsR(value) ==
    Program(<< ExpressionStatement(AssignmentExpression("r", value)) >>)

\* a first b second c, the tighter operator grouped first and, of two
\* operators of one level, the left one
Grouped(first, second) ==
    IF Level(second) > Level(first)
    THEN BinaryExpression(Identifier("a"), first,
             BinaryExpression(Identifier("b"), second, Identifier("c")))
    ELSE BinaryExpression(
             BinaryExpression(Identifier("a"), first, Identifier("b")),
             second, Identifier("c"))

\* C17: binary expressions group by the precedence or < and < equality <
\* comparison < term < factor < unary, and operators of one level group
\* from the left; unary operators nest to the right.
C17_PrecedenceAndAssociativity ==
    stage \notin {"lex", "parse"} =>
        /\ \A first \in BinaryOperators, second \in BinaryOperators :
              code = TwoOperators(first, second)
                  => parsed.node = AssignsR(Grouped(first, second))
        /\ \A sign \in UnaryOperators, binaryOperator \in BinaryOperators :
              code = UnaryOperands(sign, binaryOperator)
                  => parsed.node = AssignsR(BinaryExpression(
                                       UnaryExpression(sign, Identifier("a")),
                                       binaryOperator,
                                       UnaryExpression(sign, Identifier("b"))))
        /\ code = "r = !!x;"
              => parsed.node = AssignsR(UnaryExpression("!",
                                   UnaryExpression("!", Identifier("x"))))
        /\ code = "r = a - b - c - d;"
              => parsed.node = AssignsR(BinaryExpression(
                                   Grouped("-", "-"), "-", Identifier("d")))
        /\ code = "r = a || b && c == d < e + f * -g;"
              => parsed.node = AssignsR(
                    BinaryExpression(Identifier("a"), "||",
                      BinaryExpression(Identifier("b"), "&&",
                        BinaryExpression(Identifier("c"), "==",
                          BinaryExpression(Identifier("d"), "<",
                            BinaryExpression(Identifier("e"), "+",
                              BinaryExpression(Identifier("f"), "*",
                                UnaryExpression("-", Identifier("g")))))))))

\* a - b - c was parsed
C17_SubtractionsParsed ==
    /\ code = TwoOperators("-", "-")
    /\ parsed.node = AssignsR(BinaryExpression(
                         BinaryExpression(Identifier("a"), "-", Identifier("b")),
                         "-", Identifier("c")))

\* the targets of the AssignmentExpression nodes in the tree of node
RECURSIVE AssignmentTargets(_)
AssignmentTargets(node) ==
    IF node = NoNode THEN {}
    ELSE (IF node.kind = "AssignmentExpression" THEN {node.name} ELSE {})
         \cup UNION { AssignmentTargets(node.children[i]) :
                        i \in DOMAIN node.children }

InvalidAssignmentTarget ==
    /\ parsed.error.thrown
    /\ parsed.error.message = "Invalid assignment target"
    /\ parsed.node = NoNode

\* C18: an assignment whose left-hand side is not an Identifier node, its
\* right-hand side being well formed, makes parse throw the ParseError
\* "Invalid assignment target"; every AssignmentExpression node of a tree
\* parse returns has the text of an IDENTIFIER token as its target.
C18_InvalidAssignmentTarget ==
    stage \notin {"lex", "parse"} =>
        /\ \A target \in Targets, value \in Values :
              code = Assigned(target, value) =>
                  /\ InvalidAssignmentTarget
                  /\ LET ts == WithoutNewlines(tokens)
                     IN  parsed.error.token = ts[Len(ts) - 2]
        /\ \A target \in Targets :
              code \in { "var x = " \o Assigned(target, "2"),
                         "print(" \o target \o " = 2);",
                         "a = " \o Assigned(target, "2") }
                  => InvalidAssignmentTarget
        /\ AssignmentTargets(parsed.node)
              \subseteq { tokens[k].value :
                            k \in { j \in DOMAIN tokens :
                                      tokens[j].type = "IDENTIFIER" } }

\* a + b = 3; was refused
C18_SumAssigned ==
    /\ code = Assigned("a + b", "3")
    /\ stage = "done"
    /\ InvalidAssignmentTarget
    /\ result.returned /\ ~result.success

\* the conditions under which synchronize returns, current being cur
Synchronized(ts, cur) ==
    \/ IsAtEnd(ts, cur)
    \/ cur >= 1 /\ ts[cur].type = "SEMICOLON"
    \/ ParserPeek(ts, cur).type \in
          {"VAR", "FUNCTION", "IF", "WHILE", "FOR", "RETURN"}

\* C19: when a rule throws, parse returns no Program; it has run
\* synchronize, which advanced past the offending token to the first
\* position where the previous token is a SEMICOLON, the next token starts
\* a declaration or a statement, or the tokens end; and the error parse
\* throws is the first: its token is the one at, or just before, the
\* position of the first throw.
C19_SynchronizeThenRethrow ==
    LET ts == WithoutNewlines(tokens)
        thrown == ThrownAt(ts, 0)
    IN  (stage \notin {"lex", "parse"} /\ tokens # << >>) =>
            /\ parsed.error.thrown <=> thrown >= 0
            /\ parsed.error.thrown <=> parsed.node = NoNode
            /\ parsed.error.thrown =>
                  /\ Synchronized(ts, parsed.current)
                  /\ parsed.current >= thrown
                  /\ parsed.current = thrown => IsAtEnd(ts, thrown)
                  /\ \A cur \in (thrown + 1) .. (parsed.current - 1) :
                        ~Synchronized(ts, cur)
                  /\ parsed.error.token \in
                        { ts[k] : k \in {thrown, thrown + 1} \cap DOMAIN ts }
                  /\ result = Failure(language.syntaxError \o ": "
                                  \o parsed.error.message \o " at line "
                                  \o NumberToString(Num(parsed.error.token.line)))
            /\ code = "var = 1; var 2;" =>
                  /\ parsed.error.message = "Expected variable name"
                  /\ parsed.error.token = ts[2]
            /\ code = "print(1; var y = 2; print(2;" =>
                  /\ parsed.error.token = ts[4]
                  /\ parsed.current = 4

\* of two errors in the source the first was reported, synchronize having
\* stopped after the semicolon between them
C19_FirstOfTwoErrors ==
    LET ts == WithoutNewlines(tokens)
    IN  /\ code = "print(1; var y = 2; print(2;"
        /\ stage = "done"
        /\ parsed.error.thrown
        /\ ThrownAt(ts, 0) = 3
        /\ parsed.current = 4
        /\ ts[parsed.current].type = "SEMICOLON"
        /\ ThrownAt(ts, parsed.current) > parsed.current

\* C20: every run of execute starts with pc 0 and an empty stack, variable
\* table, call stack and output buffer; the VM runs the bytecode it was
\* given, unmodified; and the runs of one bytecode without INPUT on one
\* VirtualMachine return the same output and the same error, after a run
\* that ended in an error too.
C20_ExecuteIsRepeatable ==
    /\ (stage = "execute" /\ steps = 0) =>
          /\ vm.pc = 0
          /\ vm.stack = << >>
          /\ vm.variables = << >>
          /\ vm.callStack = << >>
          /\ vm.output = << >>
          /\ vm.error = ""
    /\ runs # << >> =>
          /\ vm.instructions = generator.instructions
          /\ vm.constants = generator.constants
          /\ generator = generate(parsed.node)
    /\ ~HasOpcode(generator.instructions, {"INPUT"}) =>
          \A i, j \in DOMAIN runs : runs[i] = runs[j]

\* a program that prints and then divides by zero has run three times on
\* one VirtualMachine
C20_RanAgainAfterError ==
    /\ Len(runs) = MaxRuns
    /\ runs[1].error # ""
    /\ runs[1].output # << >>
    /\ runs[MaxRuns] = runs[1]

\* C21: PRINT with operand n, run with at least n values on the stack, pops
\* exactly the n values on top, appends one output line of their textual
\* forms in argument order joined by single spaces (the empty line when
\* n = 0), and pushes nothing.
C21_PrintPopsOperand ==
    [][(About("PRINT") /\ steps' = steps + 1
           /\ CurrentInstruction.operand >= 0
           /\ Len(vm.stack) >= CurrentInstruction.operand)
          => LET n == CurrentInstruction.operand
                 rest == Len(vm.stack) - n
             IN  /\ vm'.stack = SubSeq(vm.stack, 1, rest)
                 /\ vm'.output =
                       Append(vm.output,
                              JoinArgs(SubSeq(vm.stack, rest + 1, Len(vm.stack))))
                 /\ vm'.error = ""]_vars

\* C22: a && b and a || b run both operand expressions, a first and then
\* b, whatever the value of a, so the assignment in b always happens; AND
\* leaves a when a is falsy and b otherwise, OR leaves a when a is truthy
\* and b otherwise; the compiled code has no jump over an operand.
C22_BothOperandsEvaluated ==
    /\ \A a \in Operands, b \in Operands :
          /\ code = Logical(a, "&&", b) =>
                /\ Compiled => ~HasOpcode(generator.instructions, JumpOpCodes)
                /\ stage = "done" =>
                      result = Success(<< b.shown,
                                          IF a.falsy THEN a.shown ELSE b.shown >>)
          /\ code = Logical(a, "||", b) =>
                /\ Compiled => ~HasOpcode(generator.instructions, JumpOpCodes)
                /\ stage = "done" =>
                      result = Success(<< b.shown,
                                          IF a.falsy THEN b.shown ELSE a.shown >>)
    /\ (stage = "done" /\ code = "var x = 1; var r = (x = 2) && (x = 3); print(x, r);")
          => result = Success(<< "3 3" >>)
    /\ (stage = "done" /\ code = "var x = 1; var r = (x = 0) || (x = 3); print(x, r);")
          => result = Success(<< "3 3" >>)

\* false && (x = 2) has run: x is 2 and r is false
C22_AssignedAfterFalse ==
    /\ code = Logical(Operand("false", "false", TRUE), "&&", Operand("2", "2", FALSE))
    /\ stage = "done"
    /\ result = Success(<< "2", "false" >>)

\* the values the specification calls falsy
Falsy(value) == value \in { Bool(FALSE), Null, Num(0), Str("") }

\* C23: JUMP_IF_FALSE pops one value and sets pc to its target exactly when
\* the value is false, null, the number 0 or the empty string; after any
\* other value the next instruction runs.
C23_JumpIfFalse ==
    [][(About("JUMP_IF_FALSE") /\ steps' = steps + 1 /\ vm.stack # << >>)
          => /\ vm'.stack = PopRest(vm.stack)
             /\ vm'.pc = IF Falsy(PopValue(vm.stack))
                         THEN CurrentInstruction.operand
                         ELSE vm.pc + 1]_vars

\* C24: RETURN pops the top call frame, truncates the variable table to the
\* frame's base, continues after the matching CALL and pushes the return
\* value: a RETURN step in a function body ends without an error, with one
\* frame less on the call stack, the variables of the frame gone and the
\* value it popped on top of the stack.
C24_ReturnRestoresCaller ==
    [][(About("RETURN") /\ InBody(vm.pc) /\ steps' = steps + 1)
          => /\ vm'.error = ""
             /\ vm.callStack # << >>
             /\ vm'.callStack = PopRest(vm.callStack)
             /\ Len(vm'.variables) <= Len(vm.variables)
             /\ vm'.stack # << >>
             /\ PopValue(vm'.stack) = PopValue(vm.stack)]_vars

\* C25: getLanguageByCode returns, for the code of every entry of
\* getAllLanguages(), that entry, and undefined for a string that is the
\* code of no entry.
C25_LanguageByCode ==
    (lookup.function = "getLanguageByCode" /\ lookup.done = 1) =>
        /\ \A i \in DOMAIN getAllLanguages :
              lookup.code = getAllLanguages[i].code
                  => lookup.entry = getAllLanguages[i]
        /\ (\A i \in DOMAIN getAllLanguages :
              lookup.code # getAllLanguages[i].code)
                  => lookup.entry = NoLanguage

\* the spelling matches [A-Za-z_][A-Za-z0-9_]*
IsIdentifier(spelling) ==
    /\ spelling # ""
    /\ IsIdentifierStart(CharAt(spelling, 1))
    /\ \A p \in 1 .. Len(spelling) : IsIdentifierChar(CharAt(spelling, p))

\* C26: in every entry of LANGUAGES the spellings of the keyword map are
\* non-empty, match [A-Za-z_][A-Za-z0-9_]* and are pairwise distinct, so
\* that the lexer gives each spelling the token type of its own keyword and
\* a spelling looked up in its entry is found once.
C26_SpellingsDistinct ==
    /\ \A i \in DOMAIN LANGUAGES :
          LET spelt == LANGUAGES[i].keywords
          IN  /\ DOMAIN spelt = DOMAIN KeywordNames
              /\ \A k \in DOMAIN spelt : IsIdentifier(spelt[k])
              /\ \A k, m \in DOMAIN spelt : spelt[k] = spelt[m] => k = m
              /\ \A k \in DOMAIN spelt :
                    GetKeywordTokenType(LANGUAGES[i], spelt[k])
                        = IF k \in DOMAIN CanonicalTypes THEN CanonicalTypes[k]
                          ELSE "IDENTIFIER"
    /\ lookup.function = "getKeywordTranslation" =>
          Cardinality({ k \in DOMAIN Entry(lookup.fromLang).keywords :
                          Entry(lookup.fromLang).keywords[k] = lookup.keyword }) = 1

\* the Tamil spelling of for, which Malayalam shares, was looked up in the
\* Tamil entry and translated
C26_SharedSpellingLookedUp ==
    /\ lookup.function = "getKeywordTranslation"
    /\ lookup.done >= 1
    /\ lookup.fromLang = "tamil"
    /\ lookup.toLang = "malayalam"
    /\ lookup.keyword = "ulla"
    /\ lookup.translated = "ulla"

\* C27: for entries A and B and a spelling w of A, translating w from A to
\* B and the result back from B to A gives w, and the lexer of B gives the
\* translated word the token type the lexer of A gives w.
C27_TranslationRoundTrip ==
    lookup.function = "getKeywordTranslation" =>
        /\ lookup.done >= 1 =>
              /\ GetKeywordTokenType(Entry(lookup.toLang), lookup.translated)
                    = GetKeywordTokenType(Entry(lookup.fromLang), lookup.keyword)
              /\ \E k \in DOMAIN KeywordNames :
                    /\ Entry(lookup.fromLang).keywords[k] = lookup.keyword
                    /\ Entry(lookup.toLang).keywords[k] = lookup.translated
        /\ lookup.done = 2 => lookup.back = lookup.keyword

\* the Tamil spelling of while went to Hindi and back
C27_TranslatedAndBack ==
    /\ lookup.function = "getKeywordTranslation"
    /\ lookup.done = 2
    /\ lookup.keyword = "varai"
    /\ lookup.translated = "jab_tak"
    /\ lookup.back = "varai"
    /\ GetKeywordTokenType(Hindi, lookup.translated) = "WHILE"

\* the instructions of a call statement of print with the literals 1 to n
PrintInstructions(n) ==
    [i \in 1 .. n |-> Instruction("LOAD_CONST", i - 1, currentLine)]
        \o << Instruction("PRINT", n, currentLine),
              Instruction("POP", NoOperand, currentLine),
              Instruction("HALT", NoOperand, currentLine) >>

\* C28: in every language a call of the language's spelling of print with
\* n arguments compiles to the n arguments followed by PRINT n, and a call
\* of its spelling of input to a single INPUT, without a CALL instruction
\* and without an undefined-name error.
C28_BuiltinsOfTheLanguage ==
    stage \in {"execute", "done"} =>
        /\ \A n \in 0 .. MaxArgs :
              code = PrintCall(language, n) =>
                  /\ ~generator.thrown
                  /\ generator.instructions = PrintInstructions(n)
        /\ code = InputCall(language) =>
              /\ ~generator.thrown
              /\ generator.instructions =
                    << Instruction("INPUT", NoOperand, currentLine),
                       Instruction("STORE_VAR", 0, currentLine),
                       Instruction("POP", NoOperand, currentLine),
                       Instruction("LOAD_VAR", 0, currentLine),
                       Instruction("PRINT", 1, currentLine),
                       Instruction("POP", NoOperand, currentLine),
                       Instruction("HALT", NoOperand, currentLine) >>

\* the Tamil print was called with two arguments, and printed them
C28_TamilPrintCalled ==
    /\ language = Tamil
    /\ code = PrintCall(Tamil, 2)
    /\ stage = "done"
    /\ result = Success(<< "1 2" >>)

\* C29: once a HALT instruction has run, no further instruction runs, the
\* HALT being the last instruction or not; the loop of execute has ended
\* after the step that runs HALT.
C29_HaltStops ==
    [][(About("HALT") /\ steps' = steps + 1) => ~Running(vm')]_vars

\* C30: compileAndRun runs lex, parse, compile and execute in this order,
\* each at most once; after a stage that fails no later stage runs and the
\* result has success = false, an error and no output lines, whatever the
\* VM printed before a runtime error; a successful result carries the
\* output and no error.
C30_StagesInOrder ==
    /\ [][/\ stage' # stage =>
                << stage, stage' >> \in
                    { << "lex", "parse" >>, << "lex", "done" >>,
                      << "parse", "generate" >>, << "parse", "done" >>,
                      << "generate", "execute" >>, << "generate", "done" >>,
                      << "execute", "done" >> }
          /\ tokens' # tokens => stage = "lex"
          /\ parsed' # parsed => stage = "parse"
          /\ generator' # generator => stage = "generate"
          /\ steps' # steps => stage = "execute" /\ stage' = "execute"
          /\ result' # result => stage' = "done" /\ ~result.returned]_vars
    /\ [](/\ Len(runs) <= 1
          /\ stage \in {"lex", "parse"} => generator = NewGenerator /\ steps = 0
          /\ stage = "generate" => ~parsed.error.thrown /\ steps = 0
          /\ stage = "execute" => ~parsed.error.thrown /\ ~generator.thrown
          /\ result.returned <=> stage = "done"
          /\ stage = "done" =>
                /\ result.success <=> result.error = ""
                /\ ~result.success => result.output = << >>
                /\ tokens = << >> =>
                      /\ parsed = Parsed(NoNode, 0)
                      /\ result.error = language.syntaxError
                /\ (tokens = << >> \/ parsed.error.thrown) =>
                      /\ ~result.success
                      /\ generator = NewGenerator
                /\ (generator = NewGenerator \/ generator.thrown) =>
                      /\ ~result.success
                      /\ steps = 0
                      /\ runs = << >>
                      /\ vm = StartVm(NewGenerator)
                /\ generator.thrown => result.error = generator.message
                /\ runs # << >> =>
                      /\ result.success <=> vm.error = ""
                      /\ result.error = vm.error
                      /\ result.success => result.output = vm.output)

\* a runtime error after a line was printed: the result has the error and
\* no output
C30_OutputDroppedOnError ==
    /\ stage = "done"
    /\ vm.error = "Division by zero"
    /\ vm.output # << >>
    /\ result = Failure("Division by zero")

\* C31: STORE_VAR idx run with a non-empty stack leaves the stack as it was
\* (depth and top value), makes variables[idx] the top value, extends the
\* variable table with null entries exactly when idx >= its length, to
\* length idx + 1, and leaves every other slot, the output and the call
\* stack unchanged.
C31_StoreVarFrame ==
    [][(About("STORE_VAR") /\ steps' = steps + 1 /\ vm.stack # << >>)
          => LET idx == CurrentInstruction.operand
                 old == vm.variables
                 new == vm'.variables
             IN  /\ vm'.stack = vm.stack
                 /\ Len(new) = (IF idx >= Len(old) THEN idx + 1 ELSE Len(old))
                 /\ new[idx + 1] = PopValue(vm.stack)
                 /\ \A i \in 1 .. Len(new) :
                       i # idx + 1 =>
                           new[i] = (IF i <= Len(old) THEN old[i] ELSE Null)
                 /\ vm'.output = vm.output
                 /\ vm'.callStack = vm.callStack
                 /\ vm'.error = ""]_vars

\* STORE_VAR 2 has run on an empty variable table: slots 0 and 1 are null
\* and slot 2 holds the value stored, which is still on the stack
C31_StoredPastTheEnd ==
    /\ stage = "execute"
    /\ vm.pc >= 1
    /\ vm.instructions[vm.pc].opcode = "STORE_VAR"
    /\ vm.instructions[vm.pc].operand = 2
    /\ vm.variables = << Null, Null, Num(3) >>
    /\ vm.stack = << Num(3) >>
\* the expression of the statement v; as the parser reads it alone
ValueNode(text) ==
    parse(Tokenize(text \o ";", English)).node.children[1].children[1]

\* the address after the first POP of the bytecode: the end of its first
\* expression statement
AfterFirstPop(instructions) ==
    CHOOSE i \in DOMAIN instructions :
        /\ instructions[i].opcode = "POP"
        /\ \A j \in 1 .. (i - 1) : instructions[j].opcode # "POP"

\* C32: a = b = v; parses as Assign(a, Assign(b, v)), and running it stores
\* the value of v in the slot of a and in the slot of b and leaves the
\* stack as it was before the statement, empty; print(a, b) then writes the
\* value twice.
C32_AssignmentChains ==
    \A chain \in Chains :
        code = Chained(chain) =>
            /\ stage \notin {"lex", "parse"} =>
                  /\ ~parsed.error.thrown
                  /\ parsed.node.children[1] =
                        ExpressionStatement(
                            AssignmentExpression("a",
                                AssignmentExpression("b", ValueNode(chain.text))))
            /\ (stage = "execute" /\ vm.pc = AfterFirstPop(vm.instructions))
                  => /\ vm.stack = << >>
                     /\ vm.error = ""
                     /\ vm.variables[generator.variables["a"] + 1] = chain.value
                     /\ vm.variables[generator.variables["b"] + 1] = chain.value
                     /\ generator.variables["a"] # generator.variables["b"]
            /\ stage = "done" =>
                  result = Success(<< ToStr(chain.value) \o " " \o ToStr(chain.value) >>)

\* a = b = 1 + 2; has run: both slots hold 3 and the stack is empty
C32_ChainStored ==
    /\ code = Chained(Chain("1 + 2", Num(3)))
    /\ stage = "execute"
    /\ vm.pc = AfterFirstPop(vm.instructions)
    /\ vm.variables = << Num(3), Num(3) >>
    /\ vm.stack = << >>
\* the loop's JUMP_IF_FALSE and its back-jump in a program of Whiles: the
\* only conditional jump and the only JUMP of the bytecode (addresses)
LoopTest ==
    CHOOSE j \in 0 .. (Len(vm.instructions) - 1) :
        vm.instructions[j + 1].opcode = "JUMP_IF_FALSE"

\* the first instruction of the loop's condition, the first to read a
\* variable: the declarations before the loop have literal initializers
LoopStart ==
    CHOOSE j \in 0 .. (Len(vm.instructions) - 1) :
        /\ vm.instructions[j + 1].opcode = "LOAD_VAR"
        /\ \A i \in 1 .. j : vm.instructions[i].opcode # "LOAD_VAR"

BackJump ==
    CHOOSE j \in 0 .. (Len(vm.instructions) - 1) :
        vm.instructions[j + 1].opcode = "JUMP"

\* C33: in a compiled while (c) body the condition is evaluated before
\* every iteration and the body runs once for each time it is truthy: when
\* the loop's JUMP_IF_FALSE is about to run the condition has been
\* evaluated once more than the body has run; on a truthy condition the
\* body runs next and its back-jump leads to the first instruction of the
\* condition, on a falsy one the instruction right after the back-jump runs
\* next.  The loop from n runs its body n times and its condition n + 1
\* times, and the factorial loop from 5 prints 120.
C33_WhileLoop ==
    /\ [](\A n \in 0 .. MaxCount :
            code = Counting(n) =>
                /\ About("JUMP_IF_FALSE") =>
                      /\ vm.variables[2] = NumAdd(vm.variables[3], Num(1))
                      /\ vm.variables[1] = NumSub(Num(n), vm.variables[3])
                /\ stage = "done" =>
                      result = Success(<< NatToString(n + 1) \o " " \o NatToString(n) >>))
    /\ [](stage = "done" /\ code = FactorialLoop => result = Success(<< "120" >>))
    /\ [][(code \in Whiles /\ About("JUMP_IF_FALSE") /\ steps' = steps + 1)
             => IF Truthy(PopValue(vm.stack))
                THEN vm'.pc = vm.pc + 1 /\ vm.pc + 1 < BackJump
                ELSE vm'.pc = BackJump + 1]_vars
    /\ [][(code \in Whiles /\ About("JUMP") /\ steps' = steps + 1)
             => /\ vm'.pc = LoopStart
                /\ vm'.pc < LoopTest
                /\ vm'.stack = vm.stack]_vars

\* the loop from 2 has left: its condition ran three times, its body twice
C33_LoopLeft ==
    /\ code = Counting(2)
    /\ stage = "execute"
    /\ vm.pc = BackJump + 1
    /\ vm.variables = << Num(0), Num(3), Num(2) >>
\* the entries of stored made for the function declaration compiled at this
\* address, in the order they were made: its parameter loop ran first
StoredAt(first, n) ==
    [k \in 1 .. n |->
        CHOOSE entry \in { generator.stored[i] : i \in DOMAIN generator.stored } :
            entry.address = first + k - 1]

\* the instructions of a function declaration begin with one STORE_VAR per
\* parameter, the last parameter first, and end with LOAD_CONST of null and
\* RETURN; no jump among them leads outside them
BodyShape(body) ==
    LET n == Len(body.parameters)
        code0 == generator.instructions
        stored == StoredAt(body.first, n)
    IN  /\ body.first + n + 2 <= body.last + 1
        /\ \A k \in 1 .. n :
              /\ code0[body.first + k].opcode = "STORE_VAR"
              /\ code0[body.first + k].operand = stored[k].index
              /\ stored[k].name = body.parameters[n + 1 - k]
        /\ code0[body.last + 1].opcode = "RETURN"
        /\ code0[body.last].opcode = "LOAD_CONST"
        /\ At(generator.constants, code0[body.last].operand) = Null
        /\ \A i \in (body.first + 1) .. (body.last + 1) :
              code0[i].opcode \in JumpOpCodes =>
                  /\ body.first <= code0[i].operand
                  /\ code0[i].operand <= body.last

\* the declaration of its name compiled last
LastDeclared(body) ==
    \A other \in generator.bodies : other.name = body.name => other.first <= body.first

\* C34 as stated: the instructions of every function declaration start at
\* the address the function table records for its name, begin with one
\* STORE_VAR per parameter in reverse parameter order and end with
\* LOAD_CONST of null and RETURN.
C34_FunctionBodyShape ==
    Compiled =>
        \A body \in generator.bodies :
            /\ generator.functions[body.name].address = body.first
            /\ BodyShape(body)

\* C34, amended: the function table records, for each name, the address and
\* arity of the declaration of that name compiled last; the instructions of
\* every function declaration begin with one STORE_VAR per parameter in
\* reverse parameter order, end with LOAD_CONST of null and RETURN, and
\* hold no jump to an address outside them.
C34_FunctionBodyShapeOfLast ==
    Compiled =>
        /\ \A body \in generator.bodies :
              /\ BodyShape(body)
              /\ MapHas(generator.functions, body.name)
              /\ LastDeclared(body) =>
                    /\ generator.functions[body.name].address = body.first
                    /\ generator.functions[body.name].arity = Len(body.parameters)
        /\ \A name \in DOMAIN generator.functions :
              \E body \in generator.bodies : body.name = name

\* a function of three parameters and one nested in another were compiled
C34_FunctionsCompiled ==
    /\ Compiled
    /\ \E body \in generator.bodies : Len(body.parameters) >= 2 /\ InBody(body.first - 1)
    /\ Len(generator.stored) = 3
\* C35: the compiler's variable table maps distinct names to distinct
\* indices, after any var declarations, re-declarations, function
\* parameters and assignments.
C35_DistinctIndices ==
    \A name \in DOMAIN generator.variables, other \in DOMAIN generator.variables :
        generator.variables[name] = generator.variables[other] => name = other
CountdownProgram == "var x = 2; while (x >= 0) { print(6 / x); x = x - 1; }"

\* C36: when an instruction throws, execute returns at once with the
\* error's message and exactly the output lines appended before that
\* instruction, in order: the throwing step changes no output line, no
\* instruction runs after it, and the next step returns the message and
\* those lines.
C36_ErrorReturnedWithOutput ==
    /\ [][(stage = "execute" /\ vm.error = "" /\ vm'.error # "")
             => /\ vm'.output = vm.output
                /\ vm'.pc = vm.pc
                /\ ~Running(vm')]_vars
    /\ [][(stage = "execute" /\ vm.error # "")
             => /\ stage' = "done"
                /\ vm' = vm
                /\ steps' = steps
                /\ runs' = Append(runs, [output |-> vm.output, error |-> vm.error])]_vars
    /\ []((stage = "done" /\ code = CountdownProgram)
             => runs = << [output |-> << "3", "6" >>, error |-> "Division by zero"] >>)

\* execute returned Division by zero with the two lines printed before it
C36_ReturnedAfterTwoLines ==
    /\ stage = "done"
    /\ runs = << [output |-> << "3", "6" >>, error |-> "Division by zero"] >>
SkippedDeclaration == "if (false) { var a = 1; } print(a);"

\* C37: LOAD_VAR idx run when the variable table does not reach idx ends
\* execution with a runtime error, pushes nothing and leaves the stack and
\* the variable table as they were; the program that reads a variable
\* declared only in a branch not taken returns that error.
C37_LoadVarPastTheTable ==
    /\ [][(About("LOAD_VAR") /\ steps' = steps + 1
              /\ CurrentInstruction.operand >= Len(vm.variables))
             => /\ vm'.error = "Undefined variable at index "
                                  \o NatToString(CurrentInstruction.operand)
                /\ ~Running(vm')
                /\ vm'.stack = vm.stack
                /\ vm'.variables = vm.variables
                /\ vm'.output = vm.output]_vars
    /\ []((stage = "done" /\ code = SkippedDeclaration)
             => result = Failure("Undefined variable at index 0"))

\* the read of a, never stored, ended the run
C37_SkippedDeclarationRead ==
    /\ stage = "done"
    /\ code = SkippedDeclaration
    /\ vm.error = "Undefined variable at index 0"
    /\ vm.stack = << >>
    /\ vm.variables = << >>
\* C38: after handleLanguageChange(c), c the code of a listed language, the
\* language of the next compile is the entry whose code is c, the editor's
\* text is the example program written with that entry's keywords, and
\* output, error and description are cleared; Run pressed right after it
\* ends without a syntax error.
C38_LanguageChangeSetsExample ==
    /\ [][\A i \in DOMAIN getAllLanguages :
             HandleLanguageChangeTo(getAllLanguages[i].code)
                => /\ language' = getAllLanguages[i]
                   /\ code' = getExampleCode(getAllLanguages[i])
                   /\ app'.output = << >>
                   /\ app'.error = ""
                   /\ app'.codeDescription = NoDescription]_vars
    /\ []((stage = "done" /\ code # "") => result.success)

====
